---- MODULE Spec2Model ----
(***************************************************************************)
(* Soroban-Registry: the pre-deployment simulation pipeline                *)
(* (backend/api/src/simulation_handlers.rs and backend/api/src/simulation) *)
(* as a state machine.  A request is submitted, then simulate_deploy runs  *)
(* to completion on it and leaves a SimulationResult (or panics on an      *)
(* arithmetic overflow in a build with overflow checks).                   *)
(*                                                                         *)
(* The base64 text, the byte buffer and wasmparser's pull parser are       *)
(* library input: a request carries the outcome of the base64 decode, the  *)
(* buffer's length, the payloads parse_all yields for it and the text the  *)
(* buffer holds.  Everything the repository computes from those is         *)
(* computed here as the code computes it, integers in their machine width. *)
(***************************************************************************)
EXTENDS Integers, Sequences, FiniteSets, TLC

(***************************************************************************)
(* Machine integers.  A value is a little-endian sequence of 16-bit limbs: *)
(* 2 limbs for u32, 4 for u64 and i64 (two's complement), 8 for the exact  *)
(* result of one operation before it is cut to its width.                  *)
(***************************************************************************)
Base == 2^16

Half == 2^15

RECURSIVE Zeros(_)
Zeros(k) == IF k = 0 THEN <<>> ELSE <<0>> \o Zeros(k - 1)

RECURSIVE Ones(_)
Ones(k) == IF k = 0 THEN <<>> ELSE <<Base - 1>> \o Ones(k - 1)

\* n < 2^31 as k >= 2 limbs
Lit(n, k) == <<n % Base, n \div Base>> \o Zeros(k - 2)

ZeroExtend(x, k) == x \o Zeros(k - Len(x))

IsNeg(x) == x[Len(x)] >= Half

SignExtend(x, k) == x \o (IF IsNeg(x) THEN Ones(k - Len(x)) ELSE Zeros(k - Len(x)))

Low(x, k) == SubSeq(x, 1, k)

RECURSIVE MulFrom(_, _, _, _)
MulFrom(x, c, i, carry) ==
    IF i > Len(x) THEN <<>>
    ELSE LET t == x[i] * c + carry
         IN  <<t % Base>> \o MulFrom(x, c, i + 1, t \div Base)

\* x * c modulo Base^Len(x), for 0 <= c < 2^15
MulC(x, c) == MulFrom(x, c, 1, 0)

RECURSIVE AddFrom(_, _, _, _)
AddFrom(x, y, i, carry) ==
    IF i > Len(x) THEN <<>>
    ELSE LET t == x[i] + y[i] + carry
         IN  <<t % Base>> \o AddFrom(x, y, i + 1, t \div Base)

\* x + y modulo Base^Len(x)
AddL(x, y) == AddFrom(x, y, 1, 0)

RECURSIVE DivFrom(_, _, _, _)
DivFrom(x, d, i, rem) ==
    IF i = 0 THEN <<>>
    ELSE LET cur == rem * Base + x[i]
         IN  DivFrom(x, d, i - 1, cur % d) \o <<cur \div d>>

\* floor(x / d) of an unsigned x, for 0 < d < 2^15
DivC(x, d) == DivFrom(x, d, Len(x), 0)

RECURSIVE GtFrom(_, _, _)
GtFrom(x, y, i) ==
    IF i = 0 THEN FALSE
    ELSE IF x[i] # y[i] THEN x[i] > y[i]
    ELSE GtFrom(x, y, i - 1)

\* GtU taken as x >= y
GeU(x, y) == x = y \/ GtFrom(x, y, Len(x))

\* unsigned x > y, equal lengths
GtU(x, y) == GtFrom(x, y, Len(x))

\* limbs of an exact intermediate result: twice those of a 64-bit value
WIDE == 2 * 4

\* One signed 64-bit operation: the wrapped value and whether it overflowed.
I64Of(wide) == [v |-> Low(wide, 4), ovf |-> wide # SignExtend(Low(wide, 4), WIDE)]

I64Mul(x, c) == I64Of(MulC(SignExtend(x, WIDE), c))

I64Add(x, y) == I64Of(AddL(SignExtend(x, WIDE), SignExtend(y, WIDE)))

\* One unsigned operation of w limbs.
UOf(wide, w) == [v |-> Low(wide, w), ovf |-> wide # ZeroExtend(Low(wide, w), WIDE)]

UMul(x, c) == UOf(MulC(ZeroExtend(x, WIDE), c), Len(x))

U32(n) == Lit(n, 2)

U64(n) == Lit(n, 4)

I64(n) == Lit(n, 4)

U64_MAX == Ones(4)

I64_MIN_BITS == <<0, 0, 0, Half>>

(***************************************************************************)
(* Text.  A string the code inspects is a sequence of one-character        *)
(* strings; starts_with and contains are computed on it.                   *)
(***************************************************************************)
StartsWith(s, p) == Len(s) >= Len(p) /\ SubSeq(s, 1, Len(p)) = p

Contains(s, t) ==
    \E i \in 1..(Len(s) - Len(t) + 1) : SubSeq(s, i, i + Len(t) - 1) = t

Some(x) == <<x>>

None == <<>>

(***************************************************************************)
(* The Structural Validator.  parse_all yields a sequence of payloads; an  *)
(* Err payload is the last one it yields.  A section's items are Ok or Err *)
(* entries, an Err entry being the last of its section.                    *)
(***************************************************************************)
\* the locals of validate_wasm before the first payload
ScanStart ==
    [errors |-> <<>>, warnings |-> <<>>, function_count |-> U32(0),
     table_count |-> U32(0), data_section_size |-> U32(0),
     memory_pages |-> U64(0), export_functions |-> <<>>,
     import_functions |-> <<>>]

RECURSIVE LastInitial(_, _)
LastInitial(items, cur) ==
    IF items = <<>> THEN cur
    ELSE LastInitial(Tail(items), IF items[1].ok THEN items[1].initial ELSE cur)

RECURSIVE ExportNames(_)
ExportNames(items) ==
    IF items = <<>> THEN <<>>
    ELSE (IF items[1].ok THEN <<items[1].name>> ELSE <<>>)
         \o ExportNames(Tail(items))

RECURSIVE ImportNames(_)
ImportNames(items) ==
    IF items = <<>> THEN <<>>
    ELSE (IF items[1].ok
          THEN <<items[1].module \o <<":", ":">> \o items[1].name>>
          ELSE <<>>)
         \o ImportNames(Tail(items))

\* one turn of the loop over parse_all
ScanPayload(acc, p) ==
    CASE p.kind = "Version" ->
           IF p.num # 1
           THEN [acc EXCEPT !.warnings =
                     Append(@, <<"Unusual WASM version: ", p.num>>)]
           ELSE acc
      [] p.kind = "FunctionSection" -> [acc EXCEPT !.function_count = p.count]
      [] p.kind = "TableSection" -> [acc EXCEPT !.table_count = p.count]
      [] p.kind = "MemorySection" ->
           [acc EXCEPT !.memory_pages = LastInitial(p.items, @)]
      [] p.kind = "DataSection" -> [acc EXCEPT !.data_section_size = p.count]
      [] p.kind = "ExportSection" ->
           [acc EXCEPT !.export_functions = @ \o ExportNames(p.items)]
      [] p.kind = "ImportSection" ->
           [acc EXCEPT !.import_functions = @ \o ImportNames(p.items)]
      [] p.kind = "CodeSectionStart" ->
           IF p.count = U32(0)
           THEN [acc EXCEPT !.warnings =
                     Append(@, <<"No code section found - contract may be empty">>)]
           ELSE acc
      [] p.kind = "Err" ->
           [acc EXCEPT !.errors = Append(@, <<"WASM parsing error: ", p.e>>)]
      [] OTHER -> acc

RECURSIVE Scan(_, _)
Scan(payloads, acc) ==
    IF payloads = <<>> THEN acc
    ELSE Scan(Tail(payloads), ScanPayload(acc, payloads[1]))

\* valid as the code computes it: from the errors of the scan alone
ValidFlag(scanned) == scanned.errors = <<>>

validate_wasm(wasm_bytes) ==
    LET s == Scan(wasm_bytes.payloads, ScanStart)
        valid == ValidFlag(s)
        errors == IF s.function_count = U32(0)
                  THEN Append(s.errors, <<"No functions found in WASM binary">>)
                  ELSE s.errors
        warnings == IF s.export_functions = <<>>
                    THEN Append(s.warnings, <<"No exported functions found">>)
                    ELSE s.warnings
    IN  [valid |-> valid, errors |-> errors, warnings |-> warnings,
         function_count |-> s.function_count, table_count |-> s.table_count,
         data_section_size |-> s.data_section_size,
         memory_pages |-> s.memory_pages,
         export_functions |-> s.export_functions,
         import_functions |-> s.import_functions]

(***************************************************************************)
(* The Interface Extractor.                                                *)
(***************************************************************************)
s_init == <<"i", "n", "i", "t">>

s_set_admin == <<"s", "e", "t", "_", "a", "d", "m", "i", "n">>

s_get_admin == <<"g", "e", "t", "_", "a", "d", "m", "i", "n">>

s_transfer == <<"t", "r", "a", "n", "s", "f", "e", "r">>

s_balance == <<"b", "a", "l", "a", "n", "c", "e">>

s_mint == <<"m", "i", "n", "t">>

s_burn == <<"b", "u", "r", "n">>

s_vote == <<"v", "o", "t", "e">>

s_proposal == <<"p", "r", "o", "p", "o", "s", "a", "l">>

common_funcs ==
    <<s_init, s_set_admin, s_get_admin, s_transfer, s_balance, s_mint,
      s_burn, s_vote, s_proposal>>

guess_param_count(func_name) ==
    CASE func_name = s_init -> 1
      [] func_name \in {s_get_admin, s_balance} -> 0
      [] func_name \in {s_set_admin, s_transfer, s_mint} -> 2
      [] func_name = s_burn -> 1
      [] OTHER -> 1

guess_return_type(func_name) ==
    IF func_name \in {s_get_admin, s_balance} THEN Some("Address")
    ELSE Some("void")

\* is_view_function with one accessor name left out
is_view_function_get_admin_only(func_name) == func_name = s_get_admin

is_view_function(func_name) == func_name \in {s_get_admin, s_balance}

\* String::from_utf8_lossy(wasm_bytes): the text the buffer holds
from_utf8_lossy(wasm_bytes) == wasm_bytes.text

RECURSIVE FoundFuncs(_, _)
FoundFuncs(wasm_str, i) ==
    IF i > Len(common_funcs) THEN <<>>
    ELSE (IF Contains(wasm_str, common_funcs[i])
          THEN <<[name |-> common_funcs[i],
                  param_count |-> guess_param_count(common_funcs[i]),
                  return_type |-> guess_return_type(common_funcs[i]),
                  is_view |-> is_view_function(common_funcs[i])]>>
          ELSE <<>>)
         \o FoundFuncs(wasm_str, i + 1)

extract_embedded_spec(wasm_bytes) ==
    LET functions == FoundFuncs(from_utf8_lossy(wasm_bytes), 1)
    IN  IF functions = <<>>
        THEN [ok |-> FALSE, e |-> "No contract functions detected",
              functions |-> <<>>]
        ELSE [ok |-> TRUE, e |-> "", functions |-> functions]

\* extract_abi reporting the extractor's error when no function is found
extract_abi_failing(wasm_bytes) ==
    LET spec == extract_embedded_spec(wasm_bytes)
    IN  IF spec.ok
        THEN [success |-> TRUE, errors |-> <<>>,
              functions |-> spec.functions,
              types |-> [i \in 1..Len(spec.functions) |-> spec.functions[i].name]]
        ELSE [success |-> FALSE, errors |-> <<spec.e>>, functions |-> <<>>,
              types |-> <<>>]

extract_abi(wasm_bytes) ==
    LET spec == extract_embedded_spec(wasm_bytes)
    IN  IF spec.ok
        THEN [success |-> TRUE, errors |-> <<>>,
              functions |-> spec.functions,
              types |-> [i \in 1..Len(spec.functions) |-> spec.functions[i].name]]
        ELSE [success |-> TRUE, errors |-> <<>>, functions |-> <<>>,
              types |-> <<>>]

(***************************************************************************)
(* The Cost Estimator.  An f64 is kept as the quotient it stands for,      *)
(* [num, den]; the rounding of f64 operations is not represented.          *)
(***************************************************************************)
STROOPS_PER_XLM == 10000000

BASE_DEPLOYMENT_COST == 50000

COST_PER_KB == 5000

COST_PER_FUNCTION == 1000

COST_PER_TABLE == 2000

COST_PER_MEMORY_PAGE == 10000

F64(num, den) == [num |-> num, den |-> den]

\* min(x, cap) of an unsigned x, as a number
MinCap(x, cap) ==
    IF GtU(x, Lit(cap, Len(x))) THEN cap ELSE x[2] * Base + x[1]

\* calculate_complexity_factor with the size ratio left uncapped
calculate_complexity_factor_uncapped_size(function_count, table_count, memory_pages, size_bytes) ==
    LET func_factor == 3 * 1024 * MinCap(function_count, 100)
        table_factor == 2 * 10240 * MinCap(table_count, 10)
        memory_factor == 2 * 100 * MinCap(memory_pages, 1024)
        size_factor == 3 * size_bytes
    IN  F64(I64(func_factor + table_factor + memory_factor + size_factor),
            1024000)

\* in units of 1/1024000: 0.3, 0.2, 0.2, 0.3 of the four capped ratios;
\* wasm_size_kb is passed as the byte count it is the 1024th of
calculate_complexity_factor(function_count, table_count, memory_pages, size_bytes) ==
    LET func_factor == 3 * 1024 * MinCap(function_count, 100)
        table_factor == 2 * 10240 * MinCap(table_count, 10)
        memory_factor == 2 * 100 * MinCap(memory_pages, 1024)
        size_factor == 3 * (IF size_bytes > 102400 THEN 102400 ELSE size_bytes)
    IN  F64(I64(func_factor + table_factor + memory_factor + size_factor),
            1024000)

\* [ovf, r]: r is what the code returns when no overflow check stops it,
\* ovf whether one of its integer operations overflowed
estimate_gas(wasm_bytes, validation_result) ==
    LET wasm_size_bytes == wasm_bytes.len
        wasm_size_kb == F64(I64(wasm_size_bytes), 1024)
        size_cost == I64Mul(I64(wasm_size_bytes \div 1024), COST_PER_KB)
        function_cost ==
            I64Mul(ZeroExtend(validation_result.function_count, 4),
                   COST_PER_FUNCTION)
        table_cost ==
            I64Mul(ZeroExtend(validation_result.table_count, 4), COST_PER_TABLE)
        memory_cost ==
            I64Mul(validation_result.memory_pages, COST_PER_MEMORY_PAGE)
        d1 == I64Add(I64(BASE_DEPLOYMENT_COST), size_cost.v)
        d2 == I64Add(d1.v, function_cost.v)
        d3 == I64Add(d2.v, table_cost.v)
        deployment_cost == I64Add(d3.v, memory_cost.v)
        storage_mul ==
            I64Mul(ZeroExtend(validation_result.data_section_size, 4),
                   COST_PER_KB)
        \* a u32 times 5000 is never negative: the division is unsigned
        storage_cost == DivC(storage_mul.v, 10)
        total_cost_stroops == I64Add(deployment_cost.v, storage_cost)
        complexity_factor ==
            calculate_complexity_factor(validation_result.function_count,
                                        validation_result.table_count,
                                        validation_result.memory_pages,
                                        wasm_size_bytes)
    IN  [ovf |-> size_cost.ovf \/ function_cost.ovf \/ table_cost.ovf
                 \/ memory_cost.ovf \/ d1.ovf \/ d2.ovf \/ d3.ovf
                 \/ deployment_cost.ovf \/ storage_mul.ovf
                 \/ total_cost_stroops.ovf,
         r |-> [total_cost_stroops |-> total_cost_stroops.v,
                total_cost_xlm |-> F64(total_cost_stroops.v, STROOPS_PER_XLM),
                deployment_cost_stroops |-> deployment_cost.v,
                storage_cost_stroops |-> storage_cost,
                wasm_size_kb |-> wasm_size_kb,
                complexity_factor |-> complexity_factor]]

(***************************************************************************)
(* The Performance Analyzer.                                               *)
(***************************************************************************)
PerformanceWarning(code, message, severity) ==
    [code |-> code, message |-> message, severity |-> severity]

HasAbi(func_name, abi_result) ==
    \E i \in 1..Len(abi_result.functions) :
        abi_result.functions[i].name = func_name

\* iter().find: the first entry of that name
FindAbi(func_name, abi_result) ==
    abi_result.functions[
        CHOOSE i \in 1..Len(abi_result.functions) :
            /\ abi_result.functions[i].name = func_name
            /\ \A j \in 1..(i - 1) : abi_result.functions[j].name # func_name]

\* analyze_function with the iterate/batch rule tried before the accessor rule
analyze_function_batch_first(func_name, abi_result) ==
    LET has_abi == HasAbi(func_name, abi_result)
        low == [complexity |-> "low", recommendation |-> None]
        unknown == [complexity |-> "unknown", recommendation |-> None]
        cr == IF Contains(func_name, <<"i", "t", "e", "r", "a", "t", "e">>)
                 \/ Contains(func_name, <<"b", "a", "t", "c", "h">>)
              THEN [complexity |-> "high",
                    recommendation |->
                        Some("Consider adding pagination for large datasets")]
              ELSE IF StartsWith(func_name, <<"g", "e", "t", "_">>)
                      \/ Contains(func_name, <<"_", "v", "i", "e", "w">>)
              THEN low
              ELSE IF has_abi
              THEN IF FindAbi(func_name, abi_result).param_count > 5
                   THEN [complexity |-> "medium",
                         recommendation |->
                             Some("Consider grouping parameters into structs")]
                   ELSE low
              ELSE unknown
    IN  [name |-> func_name, complexity |-> cr.complexity,
         recommendation |-> cr.recommendation]

analyze_function(func_name, abi_result) ==
    LET has_abi == HasAbi(func_name, abi_result)
        low == [complexity |-> "low", recommendation |-> None]
        unknown == [complexity |-> "unknown", recommendation |-> None]
        cr == IF StartsWith(func_name, <<"g", "e", "t", "_">>)
                 \/ Contains(func_name, <<"_", "v", "i", "e", "w">>)
              THEN low
              ELSE IF Contains(func_name, <<"i", "t", "e", "r", "a", "t", "e">>)
                      \/ Contains(func_name, <<"b", "a", "t", "c", "h">>)
              THEN [complexity |-> "high",
                    recommendation |->
                        Some("Consider adding pagination for large datasets")]
              ELSE IF has_abi
              THEN IF FindAbi(func_name, abi_result).param_count > 5
                   THEN [complexity |-> "medium",
                         recommendation |->
                             Some("Consider grouping parameters into structs")]
                   ELSE low
              ELSE unknown
    IN  [name |-> func_name, complexity |-> cr.complexity,
         recommendation |-> cr.recommendation]

\* [ovf, r] as for estimate_gas
analyze_performance(wasm_bytes, validation_result, abi_result) ==
    LET base_time_per_kb == 1
        wasm_size_kb == wasm_bytes.len \div 1024
        estimated_execution_time_ms ==
            base_time_per_kb * (IF wasm_size_kb > 1 THEN wasm_size_kb ELSE 1)
        memory_estimate_kb == UMul(validation_result.memory_pages, 64)
        w1 == IF wasm_size_kb > 100
              THEN <<PerformanceWarning("LARGE_WASM",
                        <<"WASM size is {} KB - consider optimizing",
                          wasm_size_kb>>, "medium")>>
              ELSE <<>>
        w2 == IF GtU(validation_result.memory_pages, U64(512))
              THEN <<PerformanceWarning("HIGH_MEMORY",
                        <<"Memory allocation is {} pages - may exceed typical limits",
                          validation_result.memory_pages>>, "high")>>
              ELSE <<>>
        w3 == IF GtU(validation_result.table_count, U32(10))
              THEN <<PerformanceWarning("MANY_TABLES",
                        <<"{} tables detected - may impact performance",
                          validation_result.table_count>>, "low")>>
              ELSE <<>>
        function_analysis ==
            [i \in 1..Len(validation_result.export_functions) |->
                analyze_function(validation_result.export_functions[i],
                                 abi_result)]
        unused_count == Len(validation_result.import_functions)
        w4 == IF validation_result.import_functions # <<>> /\ unused_count > 5
              THEN <<PerformanceWarning("MANY_IMPORTS",
                        <<"{} imported functions - consider bundling",
                          unused_count>>, "low")>>
              ELSE <<>>
        w5 == IF GtU(validation_result.data_section_size, U32(50))
              THEN <<PerformanceWarning("LARGE_DATA",
                        <<"Large data section ({} entries) - consider lazy loading",
                          validation_result.data_section_size>>, "medium")>>
              ELSE <<>>
    IN  [ovf |-> memory_estimate_kb.ovf,
         r |-> [estimated_execution_time_ms |-> U64(estimated_execution_time_ms),
                memory_estimate_kb |-> memory_estimate_kb.v,
                warnings |-> w1 \o w2 \o w3 \o w4 \o w5,
                function_analysis |-> function_analysis]]

(***************************************************************************)
(* The handler.                                                            *)
(***************************************************************************)
\* crate::validation::validate_contract_id: the identifiers it accepts
ValidContractIds == {"CDLZFC3SYJYDZT7K67VZ75HPJVIEUVNIXF47ZG2FB2RMQQVU2HHGCYSC"}

validate_contract_id(contract_id) ==
    IF contract_id \in ValidContractIds
    THEN [ok |-> TRUE, e |-> ""]
    ELSE [ok |-> FALSE, e |-> "Invalid contract ID format"]

SimulationError(code, message, field) ==
    [code |-> code, message |-> message, field |-> Some(field)]

SimulationWarning(code, message, severity) ==
    [code |-> code, message |-> message, severity |-> Some(severity)]

ZeroF64 == F64(I64(0), 1)

ZeroGasEstimate ==
    [total_cost_stroops |-> I64(0), total_cost_xlm |-> ZeroF64,
     wasm_size_kb |-> ZeroF64, complexity_factor |-> ZeroF64,
     deployment_cost_stroops |-> I64(0), storage_cost_stroops |-> I64(0)]

ZeroPerformanceMetrics ==
    [estimated_execution_time_ms |-> U64(0), memory_estimate_kb |-> U64(0),
     function_count |-> U32(0), table_size_bytes |-> U32(0),
     data_section_bytes |-> U32(0), warnings |-> <<>>]

\* FailedResult with an interface preview left in the failed result
FailedResultWithPreview(errors) ==
    [valid |-> FALSE, errors |-> errors, warnings |-> <<>>,
     gas_estimate |-> ZeroGasEstimate,
     performance_metrics |-> ZeroPerformanceMetrics,
     abi_preview |-> Some([function_count |-> 0, type_count |-> 0]),
     contract_functions |-> None]

\* the SimulationResult of the four decoder returns and of the structural one
FailedResult(errors) ==
    [valid |-> FALSE, errors |-> errors, warnings |-> <<>>,
     gas_estimate |-> ZeroGasEstimate,
     performance_metrics |-> ZeroPerformanceMetrics,
     abi_preview |-> None, contract_functions |-> None]

\* the locals a run of the handler leaves, and how it ended
Outcome(panicked, result, vr, abi, gas, perf) ==
    [panicked |-> panicked, result |-> result, validation_result |-> vr,
     abi_result |-> abi, gas_result |-> gas, performance_result |-> perf]

Returned(result) == Outcome(FALSE, Some(result), None, None, None, None)

\* StructuralErrors converting the report's warnings instead of its errors
StructuralErrorsFromWarnings(validation_result) ==
    [i \in 1..Len(validation_result.warnings) |->
        SimulationError("WasmValidationError", validation_result.warnings[i],
                        "wasm_binary")]

\* StructuralErrors keeping the first structural error only
StructuralErrorsFirstOnly(validation_result) ==
    [i \in 1..(IF validation_result.errors = <<>> THEN 0 ELSE 1) |->
        SimulationError("WasmValidationError", validation_result.errors[i],
                        "wasm_binary")]

StructuralErrors(validation_result) ==
    [i \in 1..Len(validation_result.errors) |->
        SimulationError("WasmValidationError", validation_result.errors[i],
                        "wasm_binary")]

StructuralWarnings(validation_result) ==
    [i \in 1..Len(validation_result.warnings) |->
        SimulationWarning("WasmWarning", validation_result.warnings[i], "low")]

PerformanceWarnings(performance_result) ==
    [i \in 1..Len(performance_result.warnings) |->
        SimulationWarning(performance_result.warnings[i].code,
                          performance_result.warnings[i].message,
                          performance_result.warnings[i].severity)]

\* MergeWarnings with the performance warnings chained first
MergeWarningsPerformanceFirst(validation_result, performance_result) ==
    PerformanceWarnings(performance_result)
    \o StructuralWarnings(validation_result)

\* the chain of the two converted lists
MergeWarnings(validation_result, performance_result) ==
    StructuralWarnings(validation_result)
    \o PerformanceWarnings(performance_result)

ContractFunctions(abi_result) ==
    [i \in 1..Len(abi_result.functions) |->
        [name |-> abi_result.functions[i].name,
         param_count |-> abi_result.functions[i].param_count,
         return_type |-> abi_result.functions[i].return_type,
         is_view |-> abi_result.functions[i].is_view]]

\* the soft budget of the aggregator, in ms
SOFT_BUDGET_MS == 4000

\* SlowWarning firing at the budget itself
SlowWarningAtBudget(elapsed_ms) ==
    IF elapsed_ms >= SOFT_BUDGET_MS
    THEN <<SimulationWarning("SlowSimulation",
              <<"Simulation took {}ms - approaching 5s limit", elapsed_ms>>,
              "medium")>>
    ELSE <<>>

SlowWarning(elapsed_ms) ==
    IF elapsed_ms > SOFT_BUDGET_MS
    THEN <<SimulationWarning("SlowSimulation",
              <<"Simulation took {}ms - approaching 5s limit", elapsed_ms>>,
              "medium")>>
    ELSE <<>>

\* AbiPreview present whatever the extractor found
AbiPreviewAlways(abi_result) ==
    Some([function_count |-> Len(abi_result.functions),
          type_count |-> Len(abi_result.types)])

AbiPreview(abi_result) ==
    IF abi_result.types # <<>>
    THEN Some([function_count |-> Len(abi_result.functions),
               type_count |-> Len(abi_result.types)])
    ELSE None

\* Aggregate reporting the measured time as the estimated execution time
AggregateMeasuredTime(validation_result, abi_result, gas, perf, elapsed_ms, overflow_checks) ==
    LET warnings == MergeWarnings(validation_result, perf.r)
        contract_functions == ContractFunctions(abi_result)
        final_warnings == warnings \o SlowWarning(elapsed_ms)
        table_size_bytes == UMul(validation_result.table_count, 8)
        vr == Some(validation_result)
    IN  IF overflow_checks /\ gas.ovf
        THEN Outcome(TRUE, None, vr, Some(abi_result), None, None)
        ELSE IF overflow_checks /\ perf.ovf
        THEN Outcome(TRUE, None, vr, Some(abi_result), Some(gas.r), None)
        ELSE IF overflow_checks /\ table_size_bytes.ovf
        THEN Outcome(TRUE, None, vr, Some(abi_result), Some(gas.r),
                     Some(perf.r))
        ELSE Outcome(FALSE,
                Some([valid |-> TRUE, errors |-> <<>>,
                      warnings |-> final_warnings,
                      gas_estimate |->
                          [total_cost_stroops |-> gas.r.total_cost_stroops,
                           total_cost_xlm |-> gas.r.total_cost_xlm,
                           wasm_size_kb |-> gas.r.wasm_size_kb,
                           complexity_factor |-> gas.r.complexity_factor,
                           deployment_cost_stroops |->
                               gas.r.deployment_cost_stroops,
                           storage_cost_stroops |-> gas.r.storage_cost_stroops],
                      performance_metrics |->
                          [estimated_execution_time_ms |->
                               U64(elapsed_ms),
                           memory_estimate_kb |-> perf.r.memory_estimate_kb,
                           function_count |-> validation_result.function_count,
                           table_size_bytes |-> table_size_bytes.v,
                           data_section_bytes |->
                               validation_result.data_section_size,
                           warnings |-> <<>>],
                      abi_preview |-> AbiPreview(abi_result),
                      contract_functions |->
                          IF contract_functions = <<>> THEN None
                          ELSE Some(contract_functions)]),
                vr, Some(abi_result), Some(gas.r), Some(perf.r))

\* the part of the handler after the three stages that follow a valid
\* structural report: gas and perf are [ovf, r]
Aggregate(validation_result, abi_result, gas, perf, elapsed_ms, overflow_checks) ==
    LET warnings == MergeWarnings(validation_result, perf.r)
        contract_functions == ContractFunctions(abi_result)
        final_warnings == warnings \o SlowWarning(elapsed_ms)
        table_size_bytes == UMul(validation_result.table_count, 8)
        vr == Some(validation_result)
    IN  IF overflow_checks /\ gas.ovf
        THEN Outcome(TRUE, None, vr, Some(abi_result), None, None)
        ELSE IF overflow_checks /\ perf.ovf
        THEN Outcome(TRUE, None, vr, Some(abi_result), Some(gas.r), None)
        ELSE IF overflow_checks /\ table_size_bytes.ovf
        THEN Outcome(TRUE, None, vr, Some(abi_result), Some(gas.r),
                     Some(perf.r))
        ELSE Outcome(FALSE,
                Some([valid |-> TRUE, errors |-> <<>>,
                      warnings |-> final_warnings,
                      gas_estimate |->
                          [total_cost_stroops |-> gas.r.total_cost_stroops,
                           total_cost_xlm |-> gas.r.total_cost_xlm,
                           wasm_size_kb |-> gas.r.wasm_size_kb,
                           complexity_factor |-> gas.r.complexity_factor,
                           deployment_cost_stroops |->
                               gas.r.deployment_cost_stroops,
                           storage_cost_stroops |-> gas.r.storage_cost_stroops],
                      performance_metrics |->
                          [estimated_execution_time_ms |->
                               perf.r.estimated_execution_time_ms,
                           memory_estimate_kb |-> perf.r.memory_estimate_kb,
                           function_count |-> validation_result.function_count,
                           table_size_bytes |-> table_size_bytes.v,
                           data_section_bytes |->
                               validation_result.data_section_size,
                           warnings |-> <<>>],
                      abi_preview |-> AbiPreview(abi_result),
                      contract_functions |->
                          IF contract_functions = <<>> THEN None
                          ELSE Some(contract_functions)]),
                vr, Some(abi_result), Some(gas.r), Some(perf.r))

\* FirstFailingCheck with the name checked before the contract identifier
FirstFailingCheckNameFirst(req) ==
    IF ~req.wasm_binary.ok THEN 1
    ELSE IF req.wasm_binary.bytes.len = 0 THEN 2
    ELSE IF req.name = <<>> THEN 4
    ELSE IF ~validate_contract_id(req.contract_id).ok THEN 3
    ELSE 0

\* the first decoder check that fails, 0 when none does
FirstFailingCheck(req) ==
    IF ~req.wasm_binary.ok THEN 1
    ELSE IF req.wasm_binary.bytes.len = 0 THEN 2
    ELSE IF ~validate_contract_id(req.contract_id).ok THEN 3
    ELSE IF req.name = <<>> THEN 4
    ELSE 0

\* what the handler computes before it reads the clock: the first failing
\* decoder check and the outputs of the stages it reaches
Stages(req) ==
    LET check == FirstFailingCheck(req)
        wasm_bytes == req.wasm_binary.bytes
        validation_result == validate_wasm(wasm_bytes)
        abi_result == extract_abi(wasm_bytes)
    IN  IF check # 0
        THEN [check |-> check, validation_result |-> None,
              abi_result |-> None, gas |-> None, perf |-> None]
        ELSE IF ~validation_result.valid
        THEN [check |-> 0, validation_result |-> Some(validation_result),
              abi_result |-> None, gas |-> None, perf |-> None]
        ELSE [check |-> 0, validation_result |-> Some(validation_result),
              abi_result |-> Some(abi_result),
              gas |-> Some(estimate_gas(wasm_bytes, validation_result)),
              perf |-> Some(analyze_performance(wasm_bytes, validation_result,
                                                abi_result))]

\* the return the handler takes
Respond(req, st, elapsed_ms, overflow_checks) ==
    CASE st.check = 1 ->
           Returned(FailedResult(<<SimulationError("InvalidBase64",
               <<"Failed to decode base64 WASM binary: ", req.wasm_binary.e>>,
               "wasm_binary")>>))
      [] st.check = 2 ->
           Returned(FailedResult(<<SimulationError("EmptyWasm",
               <<"WASM binary is empty">>, "wasm_binary")>>))
      [] st.check = 3 ->
           Returned(FailedResult(<<SimulationError("InvalidContractId",
               <<validate_contract_id(req.contract_id).e>>, "contract_id")>>))
      [] st.check = 4 ->
           Returned(FailedResult(<<SimulationError("InvalidName",
               <<"Contract name cannot be empty">>, "name")>>))
      [] OTHER ->
           IF ~st.validation_result[1].valid
           THEN Outcome(FALSE,
                    Some(FailedResult(StructuralErrors(st.validation_result[1]))),
                    st.validation_result, None, None, None)
           ELSE Aggregate(st.validation_result[1], st.abi_result[1],
                          st.gas[1], st.perf[1], elapsed_ms, overflow_checks)

simulate_deploy(req, elapsed_ms, overflow_checks) ==
    Respond(req, Stages(req), elapsed_ms, overflow_checks)

(***************************************************************************)
(* Requests.  The modules are those whose parse yields a version header,   *)
(* at most MaxSections of the sections below and then the end of the       *)
(* module or a parse error; the buffer's text holds the names its sections *)
(* carry and the text of its data.                                         *)
(***************************************************************************)
MaxSections == 2

s_memory == <<"m", "e", "m", "o", "r", "y">>

s_env == <<"e", "n", "v">>

OkMemory(initial) == [ok |-> TRUE, initial |-> initial]

ErrItem == [ok |-> FALSE]

OkExport(name, kind) == [ok |-> TRUE, name |-> name, kind |-> kind]

OkImport(module, name) == [ok |-> TRUE, module |-> module, name |-> name]

SectionSamples ==
    { [kind |-> "FunctionSection", count |-> U32(1)],
      [kind |-> "TableSection", count |-> U32(11)],
      [kind |-> "MemorySection", items |-> <<OkMemory(U64(1))>>],
      [kind |-> "MemorySection", items |-> <<OkMemory(U64(513)), ErrItem>>],
      [kind |-> "MemorySection", items |-> <<OkMemory(U64_MAX)>>],
      [kind |-> "MemorySection", items |-> <<OkMemory(I64_MIN_BITS)>>],
      [kind |-> "DataSection", count |-> U32(51)],
      [kind |-> "ExportSection", items |-> <<OkExport(s_get_admin, "func")>>],
      [kind |-> "ExportSection",
       items |-> <<OkExport(s_transfer, "func"), OkExport(s_memory, "memory")>>],
      [kind |-> "ImportSection",
       items |-> [i \in 1..6 |-> OkImport(s_env, <<"f">>)]],
      [kind |-> "CodeSectionStart", count |-> U32(0)],
      [kind |-> "Other"] }

\* the header of a core module, and that of a component (whose nested core
\* module's sections parse_all yields in turn)
HeaderSamples ==
    { [kind |-> "Version", num |-> 1], [kind |-> "Version", num |-> 13] }

ParseError == [kind |-> "Err", e |-> "unexpected end-of-file"]

RECURSIVE SeqsUpTo(_, _)
SeqsUpTo(S, n) ==
    IF n = 0 THEN {<<>>}
    ELSE LET prev == SeqsUpTo(S, n - 1)
         IN  prev \cup {Append(q, x) : q \in {r \in prev : Len(r) = n - 1},
                                       x \in S}

PayloadSeqs ==
    {<<ParseError>>}
    \cup {<<h>> \o body \o tail :
            h \in HeaderSamples, body \in SeqsUpTo(SectionSamples, MaxSections),
            tail \in {<<>>, <<ParseError>>}}

RECURSIVE ItemsText(_)
ItemsText(items) ==
    IF items = <<>> THEN <<>>
    ELSE (IF ~items[1].ok THEN <<>>
          ELSE IF "module" \in DOMAIN items[1]
          THEN items[1].module \o <<"#">> \o items[1].name \o <<"#">>
          ELSE items[1].name \o <<"#">>)
         \o ItemsText(Tail(items))

RECURSIVE NamesText(_)
NamesText(payloads) ==
    IF payloads = <<>> THEN <<>>
    ELSE (IF payloads[1].kind \in {"ExportSection", "ImportSection"}
          THEN ItemsText(payloads[1].items) ELSE <<>>)
         \o NamesText(Tail(payloads))

SizeSamples == {2048, 103424}

DataTextSamples == {<<>>, <<"x">> \o s_balance \o <<"y">>}

Buffer(len, payloads, data_text) ==
    [len |-> len, payloads |-> payloads,
     text |-> NamesText(payloads) \o data_text]

EmptyBuffer == Buffer(0, <<ParseError>>, <<>>)

Buffers ==
    {EmptyBuffer}
    \cup {Buffer(len, ps, dt) :
            len \in SizeSamples, ps \in PayloadSeqs, dt \in DataTextSamples}

WasmBinaries ==
    {[ok |-> FALSE, e |-> "Invalid byte 33, offset 0.", bytes |-> EmptyBuffer]}
    \cup {[ok |-> TRUE, e |-> "", bytes |-> b] : b \in Buffers}

ContractIdSamples == ValidContractIds \cup {"not-a-contract-id"}

NameSamples == {<<>>, <<"t", "o", "k", "e", "n">>}

\* Every combination of the decoder checks' inputs, over the buffers whose
\* parse yields a header at most; every buffer with an accepted identifier
\* and a name.
Requests ==
    [wasm_binary : {w \in WasmBinaries : Len(w.bytes.payloads) <= 1},
     contract_id : ContractIdSamples, name : NameSamples]
    \cup [wasm_binary : WasmBinaries, contract_id : ValidContractIds,
          name : NameSamples \ {<<>>}]

ElapsedSamples == {0, SOFT_BUDGET_MS, SOFT_BUDGET_MS + 1}

(***************************************************************************)
(* The state machine: one request, submitted and then handled.             *)
(***************************************************************************)
VARIABLES pc, req, elapsed, result, validation_result, abi_result,
          gas_result, performance_result,
          profile, config, abi_cache, verification_cache, generic_cache,
          canary_releases, canary_stage_history, ab_tests, history

vars == <<pc, req, elapsed, result, validation_result, abi_result,
          gas_result, performance_result,
          profile, config, abi_cache, verification_cache, generic_cache,
          canary_releases, canary_stage_history, ab_tests, history>>

\* the build profile, the cache layer, the tables of the database and the
\* record of what the callers have written so far, which the specifications
\* of a single request leave out
caches == <<config, abi_cache, verification_cache, generic_cache>>

tables == <<canary_releases, canary_stage_history, ab_tests>>

NoCaches ==
    /\ config = None
    /\ abi_cache = None
    /\ verification_cache = None
    /\ generic_cache = None

NoTables ==
    /\ canary_releases = None
    /\ canary_stage_history = None
    /\ ab_tests = None

NoStores == profile = None /\ NoCaches /\ NoTables /\ history = None

stores == <<profile, caches, tables, history>>

Init ==
    /\ pc = "idle"
    /\ req = None
    /\ elapsed = None
    /\ result = None
    /\ validation_result = None
    /\ abi_result = None
    /\ gas_result = None
    /\ performance_result = None
    /\ NoStores

Submit ==
    /\ pc = "idle"
    /\ \E r \in Requests : req' = Some(r)
    /\ pc' = "pending"
    /\ UNCHANGED <<elapsed, result, validation_result, abi_result,
                   gas_result, performance_result, stores>>

SimulateDeploy ==
    /\ pc = "pending"
    /\ \E st \in {Stages(req[1])}, elapsed_ms \in ElapsedSamples,
          overflow_checks \in BOOLEAN :
          LET out == Respond(req[1], st, elapsed_ms, overflow_checks)
          IN  /\ pc' = IF out.panicked THEN "panicked" ELSE "returned"
              /\ elapsed' = Some(elapsed_ms)
              /\ result' = out.result
              /\ validation_result' = out.validation_result
              /\ abi_result' = out.abi_result
              /\ gas_result' = out.gas_result
              /\ performance_result' = out.performance_result
    /\ UNCHANGED <<req, stores>>

Next == Submit \/ SimulateDeploy

Spec == Init /\ [][Next]_vars

(***************************************************************************)
(* The estimator and the analyzer on their own.  A structural report, a    *)
(* buffer length and an interface preview are drawn at the ends of their   *)
(* types and around the thresholds; estimate_gas and analyze_performance   *)
(* then run in the handler's order, each panicking on an overflow in a     *)
(* build with overflow checks.                                             *)
(***************************************************************************)
U32_MAX == Ones(2)

\* 2^58 pages: the least count whose 64-fold does not fit in 64 bits
PAGES_2_58 == <<0, 0, 0, 1024>>

LenSamples == {1023, 2048, 102400, 102401, 103423, 103424}

FunctionCountSamples == {U32(0), U32(100), U32_MAX}

TableCountSamples == {U32(0), U32(10), U32(11), U32_MAX}

MemoryPagesSamples ==
    {U64(0), U64(1), U64(512), U64(513), U64(1024), PAGES_2_58, I64_MIN_BITS,
     U64_MAX}

DataSectionSizeSamples == {U32(0), U32(50), U32(51)}

ImportFunctionsSamples ==
    {[i \in 1..n |-> s_env \o <<":", ":", "f">>] : n \in {0, 5, 6}}

s_swap == <<"s", "w", "a", "p">>

s_get_batch == <<"g", "e", "t", "_", "b", "a", "t", "c", "h">>

s_batch_mint == <<"b", "a", "t", "c", "h", "_", "m", "i", "n", "t">>

s_pool_view == <<"p", "o", "o", "l", "_", "v", "i", "e", "w">>

s_iterate_all == <<"i", "t", "e", "r", "a", "t", "e", "_", "a", "l", "l">>

\* an export list with every kind of name, one of them twice
ExportFunctionsSample ==
    <<s_swap, s_get_batch, s_transfer, s_batch_mint, s_init, s_pool_view,
      s_iterate_all, s_transfer>>

FunctionInfo(name, param_count) ==
    [name |-> name, param_count |-> param_count,
     return_type |-> Some("void"), is_view |-> FALSE]

\* a preview as a caller of analyze_performance may build it: entries with
\* five parameters and with more
WidePreview ==
    [success |-> TRUE, errors |-> <<>>,
     functions |-> <<FunctionInfo(s_init, 6), FunctionInfo(s_batch_mint, 6),
                     FunctionInfo(s_swap, 5)>>,
     types |-> <<s_init, s_batch_mint, s_swap>>]

\* the export list and the preview it is analysed against
SurfaceSamples ==
    { [export_functions |-> <<>>, abi_result |-> extract_abi([text |-> <<>>])],
      [export_functions |-> ExportFunctionsSample,
       abi_result |-> extract_abi([text |-> <<>>])],
      [export_functions |-> ExportFunctionsSample,
       abi_result |-> extract_abi([text |-> s_transfer \o s_init])],
      [export_functions |-> ExportFunctionsSample, abi_result |-> WidePreview] }

\* the report validate_wasm returns, without a parse error, for these counts
ReportOf(function_count, table_count, data_section_size, memory_pages, export_functions, import_functions) ==
    [valid |-> TRUE,
     errors |-> IF function_count = U32(0)
                THEN <<<<"No functions found in WASM binary">>>> ELSE <<>>,
     warnings |-> IF export_functions = <<>>
                  THEN <<<<"No exported functions found">>>> ELSE <<>>,
     function_count |-> function_count, table_count |-> table_count,
     data_section_size |-> data_section_size, memory_pages |-> memory_pages,
     export_functions |-> export_functions,
     import_functions |-> import_functions]

AnalysisInit ==
    /\ pc = "report"
    /\ \E len \in LenSamples :
          req = Some([wasm_binary |-> [ok |-> TRUE, e |-> "",
                                       bytes |-> [len |-> len]]])
    /\ \E fc \in FunctionCountSamples, tc \in TableCountSamples,
          ds \in DataSectionSizeSamples, mp \in MemoryPagesSamples,
          imp \in ImportFunctionsSamples, sf \in SurfaceSamples :
          /\ validation_result =
                 Some(ReportOf(fc, tc, ds, mp, sf.export_functions, imp))
          /\ abi_result = Some(sf.abi_result)
    /\ elapsed = None
    /\ result = None
    /\ gas_result = None
    /\ performance_result = None
    /\ NoStores

\* let gas_result = estimate_gas(&wasm_bytes, &validation_result)
EstimateGas ==
    /\ pc = "report"
    /\ \E g \in {estimate_gas(req[1].wasm_binary.bytes, validation_result[1])},
          overflow_checks \in BOOLEAN :
          IF overflow_checks /\ g.ovf
          THEN pc' = "panicked" /\ gas_result' = None
          ELSE pc' = "estimated" /\ gas_result' = Some(g.r)
    /\ UNCHANGED <<req, elapsed, result, validation_result, abi_result,
                   performance_result, stores>>

\* let performance_result = analyze_performance(..); a build with overflow
\* checks gets here only when estimate_gas did not overflow
AnalyzePerformance ==
    /\ pc = "estimated"
    /\ \E p \in {analyze_performance(req[1].wasm_binary.bytes,
                                     validation_result[1], abi_result[1])},
          overflow_checks \in BOOLEAN :
          /\ overflow_checks =>
                 ~estimate_gas(req[1].wasm_binary.bytes,
                               validation_result[1]).ovf
          /\ IF overflow_checks /\ p.ovf
             THEN pc' = "panicked" /\ performance_result' = None
             ELSE pc' = "analyzed" /\ performance_result' = Some(p.r)
    /\ UNCHANGED <<req, elapsed, result, validation_result, abi_result,
                   gas_result, stores>>

AnalysisNext == EstimateGas \/ AnalyzePerformance

AnalysisSpec == AnalysisInit /\ [][AnalysisNext]_vars

(***************************************************************************)
(* The validator on its own.  A byte stream holds a header and sections,   *)
(* some of which do not decode; parse_all yields a payload per section up  *)
(* to the first that does not decode, yields its error and ends there.     *)
(***************************************************************************)
\* a section whose bytes parse_all cannot decode
Malformed == [kind |-> "Malformed"]

StreamSectionSamples ==
    SectionSamples
    \cup { [kind |-> "ExportSection",
            items |-> <<OkExport(s_memory, "memory")>>],
           Malformed }

RECURSIVE parse_all(_)
parse_all(sections) ==
    IF sections = <<>> THEN <<>>
    ELSE IF sections[1].kind = "Malformed" THEN <<ParseError>>
    ELSE <<sections[1]>> \o parse_all(Tail(sections))

Streams ==
    {<<h>> \o body : h \in HeaderSamples,
                     body \in SeqsUpTo(StreamSectionSamples, MaxSections)}

ValidatorInit ==
    /\ pc = "bytes"
    /\ \E sections \in Streams :
          req = Some([wasm_binary |->
                         [ok |-> TRUE, e |-> "",
                          bytes |-> [sections |-> sections,
                                     payloads |-> parse_all(sections)]]])
    /\ elapsed = None
    /\ result = None
    /\ validation_result = None
    /\ abi_result = None
    /\ gas_result = None
    /\ performance_result = None
    /\ NoStores

\* let validation_result = validate_wasm(&wasm_bytes)
ValidateWasm ==
    /\ pc = "bytes"
    /\ validation_result' = Some(validate_wasm(req[1].wasm_binary.bytes))
    /\ pc' = "validated"
    /\ UNCHANGED <<req, elapsed, result, abi_result, gas_result,
                   performance_result, stores>>

ValidatorNext == ValidateWasm

ValidatorSpec == ValidatorInit /\ [][ValidatorNext]_vars

(***************************************************************************)
(* Properties.                                                             *)
(***************************************************************************)
IsReturned == pc = "returned"

Res == result[1]

VR == validation_result[1]

NoFunctionsError == <<"No functions found in WASM binary">>

HasMessage(errors, message) ==
    \E i \in 1..Len(errors) : errors[i].message = message

\* C1: a request that passes the decoder checks and whose structural scan
\* ends with function_count = 0 returns valid = false with the 'no functions'
\* structural error among its errors.
C1_ZeroFunctionsInvalid ==
    (IsReturned /\ validation_result # None /\ VR.function_count = U32(0))
        => (~Res.valid /\ HasMessage(Res.errors, NoFunctionsError))

\* C2: the report of validate_wasm has valid = TRUE exactly when its errors
\* list is empty, the zero-function entry included.
C2_ValidIffNoErrors ==
    validation_result # None => (VR.valid <=> VR.errors = <<>>)

OneError(code, field) ==
    /\ ~Res.valid
    /\ Len(Res.errors) = 1
    /\ Res.errors[1].code = code
    /\ Res.errors[1].field = Some(field)
    /\ validation_result = None

\* C3: the decoder checks run in the order text decode, non-empty buffer,
\* contract identifier, non-empty name; the first that fails ends the request
\* with exactly one error, its own, tied to its field, whatever later checks
\* would have failed too.
C3_FirstFailingCheckOnly ==
    IsReturned =>
        LET r == req[1]
            decoded == r.wasm_binary.ok
            nonempty == r.wasm_binary.bytes.len > 0
            id_ok == r.contract_id \in ValidContractIds
        IN  /\ ~decoded => OneError("InvalidBase64", "wasm_binary")
            /\ (decoded /\ ~nonempty) => OneError("EmptyWasm", "wasm_binary")
            /\ (decoded /\ nonempty /\ ~id_ok)
                   => OneError("InvalidContractId", "contract_id")
            /\ (decoded /\ nonempty /\ id_ok /\ r.name = <<>>)
                   => OneError("InvalidName", "name")

\* a decoded, non-empty buffer with a rejected identifier and an empty name:
\* two checks fail and the identifier's error alone is returned
C3_Witness ==
    /\ IsReturned
    /\ req[1].wasm_binary.ok
    /\ req[1].wasm_binary.bytes.len > 0
    /\ req[1].contract_id \notin ValidContractIds
    /\ req[1].name = <<>>
    /\ Len(Res.errors) = 1
    /\ Res.errors[1].code = "InvalidContractId"

IsZero(x) == \A i \in 1..Len(x) : x[i] = 0

\* C4: a result with valid = false has every gas_estimate field and every
\* performance_metrics field zero, no performance warnings, and neither
\* abi_preview nor contract_functions.
C4_FailedResultZeroed ==
    (IsReturned /\ ~Res.valid) =>
        /\ IsZero(Res.gas_estimate.total_cost_stroops)
        /\ IsZero(Res.gas_estimate.total_cost_xlm.num)
        /\ IsZero(Res.gas_estimate.wasm_size_kb.num)
        /\ IsZero(Res.gas_estimate.complexity_factor.num)
        /\ IsZero(Res.gas_estimate.deployment_cost_stroops)
        /\ IsZero(Res.gas_estimate.storage_cost_stroops)
        /\ IsZero(Res.performance_metrics.estimated_execution_time_ms)
        /\ IsZero(Res.performance_metrics.memory_estimate_kb)
        /\ IsZero(Res.performance_metrics.function_count)
        /\ IsZero(Res.performance_metrics.table_size_bytes)
        /\ IsZero(Res.performance_metrics.data_section_bytes)
        /\ Res.performance_metrics.warnings = <<>>
        /\ Res.abi_preview = None
        /\ Res.contract_functions = None

\* a structural failure of a module that has a function, memory and text the
\* extractor would match
C4_Witness ==
    /\ IsReturned
    /\ ~Res.valid
    /\ validation_result # None
    /\ ~IsZero(VR.function_count)
    /\ ~IsZero(VR.memory_pages)
    /\ Contains(req[1].wasm_binary.bytes.text, s_balance)

\* C5: a returned result has valid = false exactly when its errors list is
\* not empty.
C5_InvalidIffErrors ==
    IsReturned => (~Res.valid <=> Res.errors # <<>>)

\* a structural failure whose report carries no warning at all
C5_Witness ==
    /\ IsReturned
    /\ validation_result # None
    /\ ~VR.valid
    /\ VR.warnings = <<>>
    /\ Res.errors # <<>>

\* C6: when the validator reports the module invalid the result has one
\* WasmValidationError per structural error, in the same order, no warnings,
\* and the extractor, the estimator and the analyzer have not run.
C6_StructuralFailure ==
    (IsReturned /\ validation_result # None /\ ~VR.valid) =>
        /\ ~Res.valid
        /\ Len(Res.errors) = Len(VR.errors)
        /\ \A i \in 1..Len(VR.errors) :
              /\ Res.errors[i].code = "WasmValidationError"
              /\ Res.errors[i].message = VR.errors[i]
        /\ Res.warnings = <<>>
        /\ abi_result = None
        /\ gas_result = None
        /\ performance_result = None

\* a parse error on a module without functions, with structural warnings
C6_Witness ==
    /\ IsReturned
    /\ validation_result # None
    /\ ~VR.valid
    /\ Len(VR.errors) = 2
    /\ Len(VR.warnings) >= 2
    /\ Len(Res.errors) = 2
    /\ Res.warnings = <<>>

IsSlow(w) == w.code = "SlowSimulation"

\* C7: the warnings of a valid result are the structural warnings in
\* validator order, then the performance warnings in analyzer order, none
\* dropped, duplicated or reordered, then the SlowSimulation warning if any.
C7_WarningOrder ==
    (IsReturned /\ Res.valid) =>
        LET sw == VR.warnings
            pw == performance_result[1].warnings
            ws == Res.warnings
            n == Len(sw) + Len(pw)
        IN  /\ Len(ws) \in {n, n + 1}
            /\ \A i \in 1..Len(sw) :
                  ws[i].code = "WasmWarning" /\ ws[i].message = sw[i]
            /\ \A j \in 1..Len(pw) :
                  /\ ws[Len(sw) + j].code = pw[j].code
                  /\ ws[Len(sw) + j].message = pw[j].message
                  /\ ws[Len(sw) + j].severity = Some(pw[j].severity)
            /\ \A i \in 1..Len(ws) : IsSlow(ws[i]) => i = n + 1
            /\ Len(ws) = n + 1 => IsSlow(ws[n + 1])

\* two structural warnings, two performance warnings and the slow warning
C7_Witness ==
    /\ IsReturned
    /\ Res.valid
    /\ Len(VR.warnings) >= 2
    /\ Len(performance_result[1].warnings) >= 2
    /\ Len(Res.warnings) = Len(VR.warnings) + Len(performance_result[1].warnings) + 1

\* C8: a valid result carries exactly one SlowSimulation warning, of severity
\* medium, when the elapsed time exceeds 4000 ms and none otherwise; it stays
\* valid with no errors, and but for that warning it is the result of the same
\* request at elapsed time 0.
C8_SlowSimulationAdvisory ==
    (IsReturned /\ Res.valid) =>
        LET slow == SelectSeq(Res.warnings, IsSlow)
            rest == SelectSeq(Res.warnings, LAMBDA w : ~IsSlow(w))
        IN  /\ elapsed[1] > 4000 =>
                  Len(slow) = 1 /\ slow[1].severity = Some("medium")
            /\ elapsed[1] <= 4000 => slow = <<>>
            /\ Res.errors = <<>>
            /\ [Res EXCEPT !.warnings = rest]
                   = simulate_deploy(req[1], 0, FALSE).result[1]

\* the budget exceeded by one millisecond on a module with other warnings
C8_Witness ==
    /\ IsReturned
    /\ Res.valid
    /\ elapsed[1] = 4001
    /\ Len(Res.warnings) >= 2
    /\ IsSlow(Res.warnings[Len(Res.warnings)])

\* C9: in a valid result abi_preview and contract_functions are present
\* exactly when the extractor found a function or a type, both absent when it
\* found none, and abi_preview.function_count is the number of
\* contract_functions.
C9_PreviewPresence ==
    (IsReturned /\ Res.valid) =>
        LET found == abi_result[1].functions # <<>> \/ abi_result[1].types # <<>>
        IN  /\ found <=> Res.abi_preview # None
            /\ found <=> Res.contract_functions # None
            /\ found => Res.abi_preview[1].function_count
                            = Len(Res.contract_functions[1])

\* a valid result with two functions in the preview
C9_Witness ==
    /\ IsReturned
    /\ Res.valid
    /\ Res.abi_preview # None
    /\ Res.abi_preview[1].function_count = 2
    /\ Len(Res.contract_functions[1]) = 2

\* the costs of the formula in unbounded arithmetic, as WIDE limbs
IdealDeploymentCost(size_bytes, vr) ==
    AddL(AddL(AddL(AddL(Lit(BASE_DEPLOYMENT_COST, WIDE),
                        MulC(Lit(size_bytes \div 1024, WIDE), COST_PER_KB)),
                   MulC(ZeroExtend(vr.function_count, WIDE), COST_PER_FUNCTION)),
              MulC(ZeroExtend(vr.table_count, WIDE), COST_PER_TABLE)),
         MulC(ZeroExtend(vr.memory_pages, WIDE), COST_PER_MEMORY_PAGE))

IdealStorageCost(vr) ==
    DivC(MulC(ZeroExtend(vr.data_section_size, WIDE), COST_PER_KB), 10)

\* C10: estimate_gas returns deployment_cost = 50000 + floor(size_kb)*5000
\* + function_count*1000 + table_count*2000 + memory_pages*10000,
\* storage_cost = floor(data_section_entries*5000/10) and total_cost =
\* deployment_cost + storage_cost, for every size and structural report.
C10_CostFormula ==
    gas_result # None =>
        LET g == gas_result[1]
            size_bytes == req[1].wasm_binary.bytes.len
            deployment == IdealDeploymentCost(size_bytes, VR)
            storage == IdealStorageCost(VR)
        IN  /\ SignExtend(g.deployment_cost_stroops, WIDE) = deployment
            /\ SignExtend(g.storage_cost_stroops, WIDE) = storage
            /\ SignExtend(g.total_cost_stroops, WIDE) = AddL(deployment, storage)

\* x with its sign bit flipped: signed order becomes unsigned order
Bias(x) == [x EXCEPT ![Len(x)] = (@ + Half) % Base]

\* x <= y as signed values of one width
LeS(x, y) == ~GtU(Bias(x), Bias(y))

TotalCost(len, vr) == estimate_gas([len |-> len], vr).r.total_cost_stroops

\* C11: when one of module size, function_count, table_count or memory_pages
\* is made larger and the other inputs of estimate_gas are kept,
\* total_cost_stroops does not become smaller, over the whole range of the
\* input types.
C11_CostMonotone ==
    gas_result # None =>
        LET len == req[1].wasm_binary.bytes.len
            total == gas_result[1].total_cost_stroops
        IN  /\ \A len2 \in LenSamples :
                  len2 > len => LeS(total, TotalCost(len2, VR))
            /\ \A fc \in FunctionCountSamples :
                  GtU(fc, VR.function_count) =>
                      LeS(total, TotalCost(len, [VR EXCEPT !.function_count = fc]))
            /\ \A tc \in TableCountSamples :
                  GtU(tc, VR.table_count) =>
                      LeS(total, TotalCost(len, [VR EXCEPT !.table_count = tc]))
            /\ \A mp \in MemoryPagesSamples :
                  GtU(mp, VR.memory_pages) =>
                      LeS(total, TotalCost(len, [VR EXCEPT !.memory_pages = mp]))

\* x >= n for an unsigned x and 0 <= n < 2^16
AtLeast(x, n) == (\E i \in 2..Len(x) : x[i] # 0) \/ x[1] >= n

\* min(x, cap) for an unsigned x and 0 <= cap < 2^16
Capped(x, cap) == IF AtLeast(x, cap) THEN cap ELSE x[1]

\* the value of a non-negative 64-bit quantity below 2^31
Small(x) == x[2] * Base + x[1]

AllCapsReached ==
    /\ AtLeast(VR.function_count, 100)
    /\ AtLeast(VR.table_count, 10)
    /\ AtLeast(VR.memory_pages, 1024)
    /\ req[1].wasm_binary.bytes.len >= 102400

\* C12: complexity_factor is within [0,1] for every input: it is
\* 0.3 min(function_count/100, 1) + 0.2 min(table_count/10, 1)
\* + 0.2 min(memory_pages/1024, 1) + 0.3 min(size_kb/100, 1), and it is 1
\* exactly when all four caps are reached.
C12_ComplexityBound ==
    gas_result # None =>
        LET cf == gas_result[1].complexity_factor
            len == req[1].wasm_binary.bytes.len
            size == IF len >= 102400 THEN 102400 ELSE len
        IN  /\ cf.den = 1024000
            /\ cf.num[3] = 0 /\ cf.num[4] = 0 /\ cf.num[2] < Half
            /\ Small(cf.num) >= 0
            /\ Small(cf.num) <= cf.den
            /\ 100 * Small(cf.num)
                   = 30 * 1024 * 10 * Capped(VR.function_count, 100)
                     + 20 * 1024 * 100 * Capped(VR.table_count, 10)
                     + 20 * 1000 * Capped(VR.memory_pages, 1024)
                     + 30 * 10 * size
            /\ Small(cf.num) = cf.den <=> AllCapsReached

\* the largest counts of the types on a module above 100 KB: factor 1
C12_Witness ==
    /\ gas_result # None
    /\ VR.function_count = U32_MAX
    /\ VR.table_count = U32_MAX
    /\ VR.memory_pages = U64_MAX
    /\ req[1].wasm_binary.bytes.len = 103424
    /\ Small(gas_result[1].complexity_factor.num) = 1024000

PW == performance_result[1].warnings

WithCode(ws, code) == SelectSeq(ws, LAMBDA w : w.code = code)

\* the code fires exactly when it should, once, with its severity
FiresIff(code, severity, cond) ==
    LET hits == WithCode(PW, code)
    IN  /\ Len(hits) = (IF cond THEN 1 ELSE 0)
        /\ \A i \in 1..Len(hits) : hits[i].severity = severity

\* C13: analyze_performance emits HIGH_MEMORY (high) iff memory_pages > 512,
\* MANY_TABLES (low) iff table_count > 10, MANY_IMPORTS (low) iff there are
\* more than 5 imports and LARGE_DATA (medium) iff data_section_entries > 50,
\* each once at most and whatever the others do; 513 pages with every other
\* metric at zero give the HIGH_MEMORY warning alone.
C13_WarningIndependence ==
    performance_result # None =>
        /\ FiresIff("HIGH_MEMORY", "high", AtLeast(VR.memory_pages, 513))
        /\ FiresIff("MANY_TABLES", "low", AtLeast(VR.table_count, 11))
        /\ FiresIff("MANY_IMPORTS", "low", Len(VR.import_functions) > 5)
        /\ FiresIff("LARGE_DATA", "medium", AtLeast(VR.data_section_size, 51))
        /\ \A i \in 1..Len(PW) :
              PW[i].code \in {"LARGE_WASM", "HIGH_MEMORY", "MANY_TABLES",
                              "MANY_IMPORTS", "LARGE_DATA"}
        /\ (/\ VR.memory_pages = U64(513)
            /\ VR.table_count = U32(0)
            /\ VR.import_functions = <<>>
            /\ VR.data_section_size = U32(0)
            /\ req[1].wasm_binary.bytes.len < 1024)
               => (Len(PW) = 1 /\ PW[1].code = "HIGH_MEMORY")

\* 513 pages, nothing else: one warning
C13_Witness ==
    /\ performance_result # None
    /\ VR.memory_pages = U64(513)
    /\ VR.table_count = U32(0)
    /\ VR.function_count = U32(0)
    /\ VR.import_functions = <<>>
    /\ VR.data_section_size = U32(0)
    /\ req[1].wasm_binary.bytes.len < 1024
    /\ Len(PW) = 1
    /\ PW[1].code = "HIGH_MEMORY"
    /\ PW[1].severity = "high"

\* C14: analyze_performance emits LARGE_WASM (medium) exactly when the
\* module's size in KB, the wasm_size_kb of the cost estimate (bytes / 1024),
\* is greater than 100, sizes between 100 KB and 101 KB included.
C14_LargeWasmThreshold ==
    performance_result # None =>
        LET size_kb == gas_result[1].wasm_size_kb
        IN  FiresIff("LARGE_WASM", "medium",
                     Small(size_kb.num) > 100 * size_kb.den)

\* C15: analyze_performance returns estimated_execution_time_ms =
\* max(1, floor(size_kb)) * 1, which is at least 1, and memory_estimate_kb =
\* memory_pages * 64, the exact product for every u64 value of memory_pages.
C15_Estimates ==
    performance_result # None =>
        LET p == performance_result[1]
            kb == req[1].wasm_binary.bytes.len \div 1024
        IN  /\ p.estimated_execution_time_ms = U64(IF kb > 1 THEN kb ELSE 1)
            /\ AtLeast(p.estimated_execution_time_ms, 1)
            /\ ZeroExtend(p.memory_estimate_kb, WIDE)
                   = MulC(ZeroExtend(VR.memory_pages, WIDE), 64)

Matching(name) ==
    {i \in 1..Len(abi_result[1].functions) :
        abi_result[1].functions[i].name = name}

\* the class the first matching rule gives a name
ExpectedAnalysis(name) ==
    IF StartsWith(name, <<"g", "e", "t", "_">>)
       \/ Contains(name, <<"_", "v", "i", "e", "w">>)
    THEN <<"low", None>>
    ELSE IF Contains(name, <<"i", "t", "e", "r", "a", "t", "e">>)
            \/ Contains(name, <<"b", "a", "t", "c", "h">>)
    THEN <<"high", Some("Consider adding pagination for large datasets")>>
    ELSE IF \E i \in Matching(name) :
                abi_result[1].functions[i].param_count > 5
    THEN <<"medium", Some("Consider grouping parameters into structs")>>
    ELSE IF Matching(name) # {}
    THEN <<"low", None>>
    ELSE <<"unknown", None>>

\* C16: analyze_performance returns one FunctionAnalysis per entry of the
\* export list, in its order, classified by the first rule that matches:
\* 'get_' prefix or '_view' -> low; 'iterate' or 'batch' -> high with the
\* pagination recommendation; a preview entry with param_count > 5 -> medium
\* with the grouping recommendation; a preview entry -> low; else unknown.
C16_FunctionAnalysis ==
    performance_result # None =>
        LET fa == performance_result[1].function_analysis
            ex == VR.export_functions
        IN  /\ Len(fa) = Len(ex)
            /\ \A i \in 1..Len(ex) :
                  /\ fa[i].name = ex[i]
                  /\ <<fa[i].complexity, fa[i].recommendation>>
                         = ExpectedAnalysis(ex[i])

\* eight exports against a preview with wide entries: every class occurs,
\* 'get_batch' is low and 'batch_mint', which has a wide entry, is high
C16_Witness ==
    /\ performance_result # None
    /\ VR.export_functions = ExportFunctionsSample
    /\ abi_result[1] = WidePreview
    /\ [i \in 1..8 |-> performance_result[1].function_analysis[i].complexity]
           = <<"low", "low", "unknown", "high", "medium", "low", "high",
               "unknown">>

RECURSIVE FunctionExports(_)
\* the function exports among the items of the export sections
FunctionExports(payloads) ==
    IF payloads = <<>> THEN <<>>
    ELSE (IF payloads[1].kind = "ExportSection"
          THEN SelectSeq(payloads[1].items,
                         LAMBDA it : it.ok /\ it.kind = "func")
          ELSE <<>>)
         \o FunctionExports(Tail(payloads))

NoExportsWarning == <<"No exported functions found">>

InSeq(x, q) == \E i \in 1..Len(q) : q[i] = x

\* C17: for a module that exports zero functions, also one that exports only
\* memories, tables or globals, validate_wasm adds the 'no exported
\* functions' warning and no error: with a function and no decode error the
\* module is valid.
C17_ZeroExportsWarning ==
    (/\ validation_result # None
     /\ FunctionExports(req[1].wasm_binary.bytes.payloads) = <<>>)
        => /\ InSeq(NoExportsWarning, VR.warnings)
           /\ ~InSeq(NoExportsWarning, VR.errors)
           /\ (/\ VR.function_count # U32(0)
               /\ ~InSeq(ParseError, req[1].wasm_binary.bytes.payloads))
                  => (VR.valid /\ VR.errors = <<>>)

RECURSIVE AttemptAll(_)
\* the payloads of a scan that goes on after a section that does not decode
AttemptAll(sections) ==
    IF sections = <<>> THEN <<>>
    ELSE <<IF sections[1].kind = "Malformed" THEN ParseError ELSE sections[1]>>
         \o AttemptAll(Tail(sections))

\* C18: a section that does not decode adds an error and does not end the
\* scan: the sections after it in the byte stream are read too, what was
\* decoded before it is kept, and validity is decided after the last section.
C18_ScanContinues ==
    validation_result # None =>
        VR = validate_wasm([payloads |->
                               AttemptAll(req[1].wasm_binary.bytes.sections)])

VocabularyFound(text) ==
    {i \in 1..Len(common_funcs) : Contains(text, common_funcs[i])}

\* a preview with a function when the given one has none, and the reverse
OtherPreview(abi) ==
    IF abi.functions = <<>> THEN extract_abi([text |-> s_balance])
    ELSE extract_abi([text |-> <<>>])

\* C19: extract_abi returns success = true and no errors for every buffer,
\* an empty function list when no vocabulary term occurs in the bytes, and
\* the result's valid flag is the same whether or not a function was
\* extracted.
C19_ExtractorNeverFails ==
    abi_result # None =>
        /\ abi_result[1].success
        /\ abi_result[1].errors = <<>>
        /\ VocabularyFound(req[1].wasm_binary.bytes.text) = {}
               => abi_result[1].functions = <<>>
        /\ IsReturned =>
               LET st == Stages(req[1])
                   other == [st EXCEPT
                                !.abi_result = Some(OtherPreview(abi_result[1]))]
               IN  /\ Res.valid
                   /\ Respond(req[1], other, elapsed[1], FALSE).result[1].valid
                          = Res.valid

\* a valid result for a buffer with text (import names) and no vocabulary
\* term in it
C19_Witness ==
    /\ IsReturned
    /\ abi_result # None
    /\ req[1].wasm_binary.bytes.text # <<>>
    /\ VocabularyFound(req[1].wasm_binary.bytes.text) = {}
    /\ abi_result[1].success
    /\ abi_result[1].functions = <<>>
    /\ Res.valid
    /\ Res.abi_preview = None

Vocabulary ==
    <<s_init, s_set_admin, s_get_admin, s_transfer, s_balance, s_mint,
      s_burn, s_vote, s_proposal>>

VocabularyIndex(name) == CHOOSE i \in 1..Len(Vocabulary) : Vocabulary[i] = name

\* C20: the preview has one function record for each vocabulary term that
\* occurs in the bytes and none for a term that does not, in vocabulary
\* order; get_admin and balance are recorded with is_view = true and
\* param_count = 0, every other term with is_view = false.
C20_VocabularyPreview ==
    abi_result # None =>
        LET fs == abi_result[1].functions
            text == req[1].wasm_binary.bytes.text
        IN  /\ \A i \in 1..Len(Vocabulary) :
                  Cardinality({j \in 1..Len(fs) : fs[j].name = Vocabulary[i]})
                      = (IF Contains(text, Vocabulary[i]) THEN 1 ELSE 0)
            /\ \A j \in 1..Len(fs) :
                  /\ \E i \in 1..Len(Vocabulary) : fs[j].name = Vocabulary[i]
                  /\ \A k \in (j + 1)..Len(fs) :
                        VocabularyIndex(fs[j].name) < VocabularyIndex(fs[k].name)
                  /\ IF fs[j].name \in {s_get_admin, s_balance}
                     THEN fs[j].is_view /\ fs[j].param_count = 0
                     ELSE ~fs[j].is_view

\* 'transfer' comes first in the bytes, 'get_admin' later and 'balance' last:
\* the preview lists get_admin, transfer, balance
C20_Witness ==
    /\ abi_result # None
    /\ StartsWith(req[1].wasm_binary.bytes.text, s_transfer)
    /\ [j \in 1..Len(abi_result[1].functions) |-> abi_result[1].functions[j].name]
           = <<s_get_admin, s_transfer, s_balance>>
    /\ abi_result[1].functions[1].is_view
    /\ ~abi_result[1].functions[2].is_view

(***************************************************************************)
(* C22: every handled request completes with a SimulationResult: no input  *)
(* makes simulate_deploy abort, including modules whose table_count * 8,   *)
(* memory_pages * 64 or cost products exceed their integer width.          *)
(***************************************************************************)
C22_AlwaysCompletes ==
    pc \notin {"idle", "pending"} => (pc = "returned" /\ result # None)

(***************************************************************************)
(* Concurrent invocations.  The handler is an async function that the      *)
(* runtime runs on several worker threads at once; each invocation owns    *)
(* its request and its locals, and AppState is extracted but never read.   *)
(* The variables of the handler are here functions over the invocations in *)
(* flight, each invocation takes the handler's steps in the handler's      *)
(* order, and the steps of different invocations interleave freely.  An    *)
(* invocation that has ended is followed by the next request.              *)
(***************************************************************************)
MaxConcurrent == 2

Invocations == 1..MaxConcurrent

AcceptedId == CHOOSE c \in ValidContractIds : TRUE

TokenRequest(wasm_binary) ==
    [wasm_binary |-> wasm_binary, contract_id |-> AcceptedId,
     name |-> <<"t", "o", "k", "e", "n">>]

DecodedModule(len, sections) ==
    [ok |-> TRUE, e |-> "",
     bytes |-> Buffer(len, <<[kind |-> "Version", num |-> 1]>> \o sections,
                      <<>>)]

\* an undecodable text, a buffer that fails to parse, a small module with
\* an exported function, a large module whose 64-bit memory declares
\* u64::MAX pages, and modules that declare 2^63 pages and u32::MAX tables
ConcurrentRequests ==
    { TokenRequest([ok |-> FALSE, e |-> "Invalid byte 33, offset 0.",
                    bytes |-> EmptyBuffer]),
      TokenRequest([ok |-> TRUE, e |-> "",
                    bytes |-> Buffer(2048, <<ParseError>>, <<>>)]),
      TokenRequest(DecodedModule(2048,
          <<[kind |-> "FunctionSection", count |-> U32(1)],
            [kind |-> "ExportSection",
             items |-> <<OkExport(s_get_admin, "func")>>]>>)),
      TokenRequest(DecodedModule(103424,
          <<[kind |-> "FunctionSection", count |-> U32(1)],
            [kind |-> "MemorySection",
             items |-> <<OkMemory(U64_MAX)>>]>>)),
      TokenRequest(DecodedModule(2048,
          <<[kind |-> "FunctionSection", count |-> U32(1)],
            [kind |-> "MemorySection",
             items |-> <<OkMemory(I64_MIN_BITS)>>]>>)),
      TokenRequest(DecodedModule(2048,
          <<[kind |-> "FunctionSection", count |-> U32(1)],
            [kind |-> "TableSection", count |-> U32_MAX]>>)) }

\* wasm_bytes with one buffer shared by the invocations in flight: that of
\* the lowest-numbered invocation holding a request
wasm_binary_as_slice_shared(reqs, i) ==
    reqs[CHOOSE j \in DOMAIN reqs :
            /\ reqs[j] # None
            /\ \A k \in DOMAIN reqs : reqs[k] # None => j <= k][1]
        .wasm_binary.bytes

\* let wasm_bytes = wasm_binary.as_slice(): the decoded buffer is a local
\* of the invocation
wasm_binary_as_slice(reqs, i) == reqs[i][1].wasm_binary.bytes

ConcurrentInit ==
    /\ pc = [i \in Invocations |-> "idle"]
    /\ req = [i \in Invocations |-> None]
    /\ elapsed = [i \in Invocations |-> None]
    /\ result = [i \in Invocations |-> None]
    /\ validation_result = [i \in Invocations |-> None]
    /\ abi_result = [i \in Invocations |-> None]
    /\ gas_result = [i \in Invocations |-> None]
    /\ performance_result = [i \in Invocations |-> None]
    /\ \E overflow_checks \in BOOLEAN :
          profile = Some([overflow_checks |-> overflow_checks])
    /\ NoCaches
    /\ NoTables
    /\ history = None

\* Json(req) extracted; start_time taken; the locals are fresh
Receive(i) ==
    /\ pc[i] \in {"idle", "returned", "panicked"}
    /\ \E r \in ConcurrentRequests : req' = [req EXCEPT ![i] = Some(r)]
    /\ pc' = [pc EXCEPT ![i] = "received"]
    /\ elapsed' = [elapsed EXCEPT ![i] = None]
    /\ result' = [result EXCEPT ![i] = None]
    /\ validation_result' = [validation_result EXCEPT ![i] = None]
    /\ abi_result' = [abi_result EXCEPT ![i] = None]
    /\ gas_result' = [gas_result EXCEPT ![i] = None]
    /\ performance_result' = [performance_result EXCEPT ![i] = None]
    /\ UNCHANGED stores

\* the base64 decoding and the three checks that follow it
Decode(i) ==
    /\ pc[i] = "received"
    /\ LET check == FirstFailingCheck(req[i][1])
       IN  IF check # 0
           THEN /\ result' = [result EXCEPT ![i] =
                       Respond(req[i][1], [check |-> check], 0, FALSE).result]
                /\ pc' = [pc EXCEPT ![i] = "returned"]
           ELSE /\ pc' = [pc EXCEPT ![i] = "decoded"]
                /\ UNCHANGED result
    /\ UNCHANGED <<req, elapsed, validation_result, abi_result, gas_result,
                   performance_result, stores>>

\* let validation_result = validate_wasm(wasm_bytes), and the return that
\* follows an invalid report
Validate(i) ==
    /\ pc[i] = "decoded"
    /\ \E v \in {validate_wasm(wasm_binary_as_slice(req, i))} :
          /\ validation_result' = [validation_result EXCEPT ![i] = Some(v)]
          /\ IF ~v.valid
             THEN /\ result' = [result EXCEPT ![i] =
                         Some(FailedResult(StructuralErrors(v)))]
                  /\ pc' = [pc EXCEPT ![i] = "returned"]
             ELSE /\ pc' = [pc EXCEPT ![i] = "validated"]
                  /\ UNCHANGED result
    /\ UNCHANGED <<req, elapsed, abi_result, gas_result, performance_result,
                   stores>>

\* let abi_result = extract_abi(wasm_bytes)
Extract(i) ==
    /\ pc[i] = "validated"
    /\ abi_result' = [abi_result EXCEPT ![i] =
           Some(extract_abi(wasm_binary_as_slice(req, i)))]
    /\ pc' = [pc EXCEPT ![i] = "extracted"]
    /\ UNCHANGED <<req, elapsed, result, validation_result, gas_result,
                   performance_result, stores>>

\* let gas_result = estimate_gas(wasm_bytes, &validation_result)
Estimate(i) ==
    /\ pc[i] = "extracted"
    /\ \E g \in {estimate_gas(wasm_binary_as_slice(req, i),
                              validation_result[i][1])} :
          IF profile[1].overflow_checks /\ g.ovf
          THEN pc' = [pc EXCEPT ![i] = "panicked"] /\ UNCHANGED gas_result
          ELSE /\ pc' = [pc EXCEPT ![i] = "estimated"]
               /\ gas_result' = [gas_result EXCEPT ![i] = Some(g)]
    /\ UNCHANGED <<req, elapsed, result, validation_result, abi_result,
                   performance_result, stores>>

\* let performance_result = analyze_performance(wasm_bytes,
\* &validation_result, &abi_result)
Analyze(i) ==
    /\ pc[i] = "estimated"
    /\ \E p \in {analyze_performance(wasm_binary_as_slice(req, i),
                                     validation_result[i][1],
                                     abi_result[i][1])} :
          IF profile[1].overflow_checks /\ p.ovf
          THEN /\ pc' = [pc EXCEPT ![i] = "panicked"]
               /\ UNCHANGED performance_result
          ELSE /\ pc' = [pc EXCEPT ![i] = "analyzed"]
               /\ performance_result' =
                      [performance_result EXCEPT ![i] = Some(p)]
    /\ UNCHANGED <<req, elapsed, result, validation_result, abi_result,
                   gas_result, stores>>

\* the conversions, the clock reading and the final SimulationResult
AggregateResult(i) ==
    /\ pc[i] = "analyzed"
    /\ \E elapsed_ms \in ElapsedSamples :
          LET out == Aggregate(validation_result[i][1], abi_result[i][1],
                               gas_result[i][1], performance_result[i][1],
                               elapsed_ms, profile[1].overflow_checks)
          IN  /\ elapsed' = [elapsed EXCEPT ![i] = Some(elapsed_ms)]
              /\ result' = [result EXCEPT ![i] = out.result]
              /\ pc' = [pc EXCEPT ![i] =
                     IF out.panicked THEN "panicked" ELSE "returned"]
    /\ UNCHANGED <<req, validation_result, abi_result, gas_result,
                   performance_result, stores>>

ConcurrentNext ==
    \E i \in Invocations :
        \/ Receive(i)
        \/ Decode(i)
        \/ Validate(i)
        \/ Extract(i)
        \/ Estimate(i)
        \/ Analyze(i)
        \/ AggregateResult(i)

ConcurrentSpec == ConcurrentInit /\ [][ConcurrentNext]_vars

(***************************************************************************)
(* C21: two invocations of simulate_deploy with the same wasm_binary,      *)
(* contract_id and name return the same valid flag, errors, gas_estimate   *)
(* and performance_metrics, whatever the elapsed time of each and whatever *)
(* other requests ran before or between them.                              *)
(***************************************************************************)
SameVerdict(a, b) ==
    /\ a.valid = b.valid
    /\ a.errors = b.errors
    /\ a.gas_estimate = b.gas_estimate
    /\ a.performance_metrics = b.performance_metrics

C21_Determinism ==
    \A i \in Invocations, j \in Invocations :
        (pc[i] = "returned" /\ pc[j] = "returned" /\ req[i] = req[j])
            => SameVerdict(result[i][1], result[j][1])

\* the same valid module handled twice, one run within the budget and one
\* beyond it, so that the two results differ in their warnings
C21_Witness ==
    /\ pc[1] = "returned" /\ pc[2] = "returned"
    /\ req[1] = req[2]
    /\ result[1][1].valid
    /\ elapsed[1] = Some(0) /\ elapsed[2] = Some(SOFT_BUDGET_MS + 1)
    /\ result[1] # result[2]

(***************************************************************************)
(* C23: under every interleaving of the stages of concurrent invocations,  *)
(* each invocation ends as the same request ends when handled alone, and   *)
(* its SimulationResult, apart from the SlowSimulation warning, is the one *)
(* the request yields alone.                                               *)
(***************************************************************************)
NotSlowSimulation(w) == w.code # "SlowSimulation"

WithoutSlowSimulation(r) ==
    [r EXCEPT !.warnings = SelectSeq(@, NotSlowSimulation)]

C23_NoInterference ==
    \A i \in Invocations :
        pc[i] \in {"returned", "panicked"} =>
            \E alone \in {simulate_deploy(req[i][1], 0,
                                          profile[1].overflow_checks)} :
                /\ (pc[i] = "panicked") = alone.panicked
                /\ pc[i] = "returned" =>
                       WithoutSlowSimulation(result[i][1])
                           = WithoutSlowSimulation(alone.result[1])

\* two different valid modules handled side by side, both returned, one of
\* them beyond the budget
C23_Witness ==
    /\ pc[1] = "returned" /\ pc[2] = "returned"
    /\ req[1] # req[2]
    /\ result[1][1].valid /\ result[2][1].valid
    /\ result[1] # result[2]
    /\ elapsed[2] = Some(SOFT_BUDGET_MS + 1)

(***************************************************************************)
(* The cache layer.  A moka cache is a finite map from keys to values; an  *)
(* entry leaves it by invalidate, by its time to live or by the capacity   *)
(* policy.  The callers' view of each key is kept beside it: the value of  *)
(* the most recent put, none when the key was never put or was invalidated *)
(* last, and unknown once an entry of the key has expired or been evicted  *)
(* since the last write.                                                   *)
(***************************************************************************)
EmptyCache == [k \in {} |-> k]

\* MokaCache::insert
cache_insert(cache, k, v) ==
    [x \in DOMAIN cache \cup {k} |-> IF x = k THEN v ELSE cache[x]]

\* MokaCache::invalidate
cache_invalidate(cache, k) == [x \in DOMAIN cache \ {k} |-> cache[x]]

\* MokaCache::get
cache_get(cache, k) == IF k \in DOMAIN cache THEN Some(cache[k]) ELSE None

get_abi(cfg, cache, contract_id) ==
    IF ~cfg.enabled THEN None ELSE cache_get(cache, contract_id)

\* put_abi without the check of config.enabled
put_abi_unchecked(cfg, cache, contract_id, abi) ==
    cache_insert(cache, contract_id, abi)

put_abi(cfg, cache, contract_id, abi) ==
    IF ~cfg.enabled THEN cache ELSE cache_insert(cache, contract_id, abi)

invalidate_abi(cfg, cache, contract_id) ==
    IF ~cfg.enabled THEN cache ELSE cache_invalidate(cache, contract_id)

get_verification(cfg, cache, bytecode_hash) ==
    IF ~cfg.enabled THEN None ELSE cache_get(cache, bytecode_hash)

put_verification(cfg, cache, bytecode_hash, res) ==
    IF ~cfg.enabled THEN cache ELSE cache_insert(cache, bytecode_hash, res)

invalidate_verification(cfg, cache, bytecode_hash) ==
    IF ~cfg.enabled THEN cache ELSE cache_invalidate(cache, bytecode_hash)

\* format!("{}:{}", ns, key)
namespaced_key(ns, key) == ns \o <<":">> \o key

\* (result, hit)
get(cfg, cache, ns, key) ==
    IF ~cfg.enabled THEN <<None, FALSE>>
    ELSE LET result_ == cache_get(cache, namespaced_key(ns, key))
         IN  <<result_, result_ # None>>

put(cfg, cache, ns, key, value) ==
    IF ~cfg.enabled THEN cache
    ELSE cache_insert(cache, namespaced_key(ns, key), value)

invalidate(cfg, cache, ns, key) ==
    IF ~cfg.enabled THEN cache
    ELSE cache_invalidate(cache, namespaced_key(ns, key))

\* the keys and values the callers use
ContractKeySamples == {"CA"}

AbiSamples == {"abi-1", "abi-2"}

BytecodeHashSamples == {"hash"}

VerificationSamples == {"verified", "failed"}

NamespaceSamples == {<<"a">>, <<"a", ":", "b">>}

KeySamples == {<<"c">>, <<"b", ":", "c">>}

ValueSamples == {"x", "y"}

\* two pairs that share the stored key "a:b:c" and one that shares none
Pairs == (NamespaceSamples \X KeySamples) \ {<<<<"a", ":", "b">>, <<"b", ":", "c">>>>}

\* the rows (contract_id, wasm_hash) the warm-up task reads, most queried
\* first; the query's LIMIT is cut to MaxWarmUpRows
MaxWarmUpRows == 2

WarmUpRowSamples ==
    ContractKeySamples \X ({None} \cup {Some(h) : h \in BytecodeHashSamples})

TopContractsSamples ==
    UNION {[1..n -> WarmUpRowSamples] : n \in 0..MaxWarmUpRows}

Unknown == <<"unknown">>

\* the pairs of the generic cache whose entry is stored under k
PairsOf(k) == {p \in Pairs : namespaced_key(p[1], p[2]) = k}

CacheInit ==
    /\ \E enabled \in BOOLEAN : config = [enabled |-> enabled]
    /\ abi_cache = EmptyCache
    /\ verification_cache = EmptyCache
    /\ generic_cache = EmptyCache
    /\ history = [abi |-> [k \in ContractKeySamples |-> None],
                  verification |-> [k \in BytecodeHashSamples |-> None],
                  generic |-> [p \in Pairs |-> None]]
    /\ pc = [at |-> "not_called", top_contracts |-> <<>>, fetched |-> None]
    /\ req = None
    /\ result = None
    /\ elapsed = None
    /\ validation_result = None
    /\ abi_result = None
    /\ gas_result = None
    /\ performance_result = None
    /\ profile = None
    /\ NoTables

analysis == <<elapsed, validation_result, abi_result, gas_result,
              performance_result, profile, tables>>

simulation == <<pc, analysis>>

GetAbi ==
    /\ \E contract_id \in ContractKeySamples :
          /\ req' = Some([op |-> "get_abi", key |-> contract_id])
          /\ result' = Some(get_abi(config, abi_cache, contract_id))
    /\ UNCHANGED <<caches, history, simulation>>

PutAbi ==
    /\ \E contract_id \in ContractKeySamples, abi \in AbiSamples :
          /\ req' = Some([op |-> "put_abi", key |-> contract_id,
                          value |-> abi])
          /\ abi_cache' = put_abi(config, abi_cache, contract_id, abi)
          /\ history' = [history EXCEPT !.abi[contract_id] = Some(abi)]
    /\ result' = None
    /\ UNCHANGED <<config, verification_cache, generic_cache, simulation>>

InvalidateAbi ==
    /\ \E contract_id \in ContractKeySamples :
          /\ req' = Some([op |-> "invalidate_abi", key |-> contract_id])
          /\ abi_cache' = invalidate_abi(config, abi_cache, contract_id)
          /\ history' = [history EXCEPT !.abi[contract_id] = None]
    /\ result' = None
    /\ UNCHANGED <<config, verification_cache, generic_cache, simulation>>

GetVerification ==
    /\ \E bytecode_hash \in BytecodeHashSamples :
          /\ req' = Some([op |-> "get_verification", key |-> bytecode_hash])
          /\ result' = Some(get_verification(config, verification_cache,
                                             bytecode_hash))
    /\ UNCHANGED <<caches, history, simulation>>

PutVerification ==
    /\ \E bytecode_hash \in BytecodeHashSamples, res \in VerificationSamples :
          /\ req' = Some([op |-> "put_verification", key |-> bytecode_hash,
                          value |-> res])
          /\ verification_cache' =
                 put_verification(config, verification_cache, bytecode_hash,
                                  res)
          /\ history' = [history EXCEPT !.verification[bytecode_hash] =
                                            Some(res)]
    /\ result' = None
    /\ UNCHANGED <<config, abi_cache, generic_cache, simulation>>

InvalidateVerification ==
    /\ \E bytecode_hash \in BytecodeHashSamples :
          /\ req' = Some([op |-> "invalidate_verification",
                          key |-> bytecode_hash])
          /\ verification_cache' =
                 invalidate_verification(config, verification_cache,
                                         bytecode_hash)
          /\ history' = [history EXCEPT !.verification[bytecode_hash] = None]
    /\ result' = None
    /\ UNCHANGED <<config, abi_cache, generic_cache, simulation>>

Get ==
    /\ \E p \in Pairs :
          /\ req' = Some([op |-> "get", key |-> p])
          /\ result' = Some(get(config, generic_cache, p[1], p[2]))
    /\ UNCHANGED <<caches, history, simulation>>

Put ==
    /\ \E p \in Pairs, value \in ValueSamples :
          /\ req' = Some([op |-> "put", key |-> p, value |-> value])
          /\ generic_cache' = put(config, generic_cache, p[1], p[2], value)
          /\ history' = [history EXCEPT !.generic[p] = Some(value)]
    /\ result' = None
    /\ UNCHANGED <<config, abi_cache, verification_cache, simulation>>

Invalidate ==
    /\ \E p \in Pairs :
          /\ req' = Some([op |-> "invalidate", key |-> p])
          /\ generic_cache' = invalidate(config, generic_cache, p[1], p[2])
          /\ history' = [history EXCEPT !.generic[p] = None]
    /\ result' = None
    /\ UNCHANGED <<config, abi_cache, verification_cache, simulation>>

\* The warm-up task.  warm_up returns at once on a disabled cache and
\* otherwise spawns a task that reads the top contracts and then, row by
\* row, awaits the ABI query, the ABI insert, the verification query (when
\* the row has a wasm_hash) and the verification insert; the calls of the
\* requests interleave at every await.  The database is the environment: a
\* query returns any of the sampled values, or nothing.  The task's inserts
\* count as puts.
AfterRow(task) ==
    LET rest == Tail(task.top_contracts)
    IN  [at |-> IF rest = <<>> THEN "completed" ELSE "abi_query",
         top_contracts |-> rest,
         fetched |-> None]

AfterAbi(task) ==
    IF Head(task.top_contracts)[2] # None
    THEN [task EXCEPT !.at = "verification_query", !.fetched = None]
    ELSE AfterRow(task)

WarmUpCall ==
    /\ pc.at = "not_called"
    /\ pc' = [pc EXCEPT !.at = IF ~config.enabled THEN "returned"
                                ELSE "spawned"]
    /\ req' = Some([op |-> "warm_up"])
    /\ result' = None
    /\ UNCHANGED <<caches, history, analysis>>

WarmUpFetchTop ==
    /\ pc.at = "spawned"
    /\ \E top_contracts \in TopContractsSamples :
          pc' = [at |-> IF top_contracts = <<>> THEN "completed"
                        ELSE "abi_query",
                 top_contracts |-> top_contracts,
                 fetched |-> None]
    /\ req' = Some([op |-> "warm_up"])
    /\ result' = None
    /\ UNCHANGED <<caches, history, analysis>>

WarmUpQueryAbi ==
    /\ pc.at = "abi_query"
    /\ \E abi \in {None} \cup {Some(a) : a \in AbiSamples} :
          pc' = IF abi # None
                THEN [pc EXCEPT !.at = "abi_insert", !.fetched = abi]
                ELSE AfterAbi(pc)
    /\ req' = Some([op |-> "warm_up"])
    /\ result' = None
    /\ UNCHANGED <<caches, history, analysis>>

WarmUpInsertAbi ==
    /\ pc.at = "abi_insert"
    /\ LET contract_id == Head(pc.top_contracts)[1]
       IN  /\ abi_cache' = cache_insert(abi_cache, contract_id, pc.fetched[1])
           /\ history' = [history EXCEPT !.abi[contract_id] = pc.fetched]
    /\ pc' = AfterAbi(pc)
    /\ req' = Some([op |-> "warm_up"])
    /\ result' = None
    /\ UNCHANGED <<config, verification_cache, generic_cache, analysis>>

WarmUpQueryVerification ==
    /\ pc.at = "verification_query"
    /\ \E ver_res \in {None} \cup {Some(r) : r \in VerificationSamples} :
          pc' = IF ver_res # None
                THEN [pc EXCEPT !.at = "verification_insert",
                                !.fetched = ver_res]
                ELSE AfterRow(pc)
    /\ req' = Some([op |-> "warm_up"])
    /\ result' = None
    /\ UNCHANGED <<caches, history, analysis>>

WarmUpInsertVerification ==
    /\ pc.at = "verification_insert"
    /\ LET w_hash == Head(pc.top_contracts)[2][1]
       IN  /\ verification_cache' =
                  cache_insert(verification_cache, w_hash, pc.fetched[1])
           /\ history' = [history EXCEPT !.verification[w_hash] = pc.fetched]
    /\ pc' = AfterRow(pc)
    /\ req' = Some([op |-> "warm_up"])
    /\ result' = None
    /\ UNCHANGED <<config, abi_cache, generic_cache, analysis>>

\* an entry leaves a cache by its time to live or by the capacity policy
Expire ==
    /\ \/ \E k \in DOMAIN abi_cache :
             /\ abi_cache' = cache_invalidate(abi_cache, k)
             /\ history' = [history EXCEPT !.abi[k] = Unknown]
             /\ UNCHANGED <<verification_cache, generic_cache>>
       \/ \E k \in DOMAIN verification_cache :
             /\ verification_cache' = cache_invalidate(verification_cache, k)
             /\ history' = [history EXCEPT !.verification[k] = Unknown]
             /\ UNCHANGED <<abi_cache, generic_cache>>
       \/ \E k \in DOMAIN generic_cache :
             /\ generic_cache' = cache_invalidate(generic_cache, k)
             /\ history' = [history EXCEPT !.generic =
                    [p \in Pairs |-> IF p \in PairsOf(k) THEN Unknown
                                     ELSE @[p]]]
             /\ UNCHANGED <<abi_cache, verification_cache>>
    /\ req' = None
    /\ result' = None
    /\ UNCHANGED <<config, simulation>>

CacheNext ==
    \/ GetAbi
    \/ PutAbi
    \/ InvalidateAbi
    \/ GetVerification
    \/ PutVerification
    \/ InvalidateVerification
    \/ Get
    \/ Put
    \/ Invalidate
    \/ WarmUpCall
    \/ WarmUpFetchTop
    \/ WarmUpQueryAbi
    \/ WarmUpInsertAbi
    \/ WarmUpQueryVerification
    \/ WarmUpInsertVerification
    \/ Expire

CacheSpec == CacheInit /\ [][CacheNext]_vars

(***************************************************************************)
(* C24: with the cache enabled and no expiry or eviction since the last    *)
(* write of the key, a get returns the value of the most recent put of     *)
(* that key (hit = true in the generic cache), and none (hit = false) when *)
(* the key was never put or was invalidated after its last put; for the    *)
(* ABI, the verification and the generic cache, whose keys are the         *)
(* (namespace, key) pairs.                                                 *)
(***************************************************************************)
LastWritten(call) ==
    CASE call.op = "get_abi" -> history.abi[call.key]
      [] call.op = "get_verification" -> history.verification[call.key]
      [] call.op = "get" -> history.generic[call.key]

ExpectedReturn(call) ==
    IF call.op = "get"
    THEN <<LastWritten(call), LastWritten(call) # None>>
    ELSE LastWritten(call)

IsGet(call) == call.op \in {"get_abi", "get_verification", "get"}

C24_GetAfterPut ==
    (config.enabled /\ req # None /\ IsGet(req[1])
     /\ LastWritten(req[1]) # Unknown)
        => result[1] = ExpectedReturn(req[1])

(***************************************************************************)
(* C25: with the cache disabled, whatever put_abi, put_verification, put,  *)
(* invalidate and warm_up calls were made, the three caches hold nothing,  *)
(* every get_abi and get_verification returns none and every generic get   *)
(* returns (none, false).                                                  *)
(***************************************************************************)
C25_DisabledCache ==
    ~config.enabled =>
        /\ abi_cache = EmptyCache
        /\ verification_cache = EmptyCache
        /\ generic_cache = EmptyCache
        /\ (req # None /\ IsGet(req[1])) =>
               result[1] = IF req[1].op = "get" THEN <<None, FALSE>> ELSE None

\* a generic get of a pair that was put, after puts into the other two
\* caches and a warm_up call, on a disabled cache
C25_Witness ==
    /\ ~config.enabled
    /\ pc.at = "returned"
    /\ \A k \in ContractKeySamples : history.abi[k] # None
    /\ \A k \in BytecodeHashSamples : history.verification[k] # None
    /\ req # None
    /\ req[1].op = "get"
    /\ history.generic[req[1].key] # None
    /\ result[1] = <<None, FALSE>>

(***************************************************************************)
(* C26: in the generic cache, a put or an invalidate on one (namespace,    *)
(* key) pair leaves the value that get returns for every other pair        *)
(* unchanged, for all namespace and key strings, those that contain ':'    *)
(* included.                                                               *)
(***************************************************************************)
C26_NamespaceIsolation ==
    [][\A p \in Pairs :
          (req' # None /\ req'[1].op \in {"put", "invalidate"}
           /\ req'[1].key # p)
              => get(config', generic_cache', p[1], p[2])
                     = get(config, generic_cache, p[1], p[2])]_vars

(***************************************************************************)
(* Canary releases.  The handlers share the canary_releases and            *)
(* canary_stage_history tables; every SQL statement is one atomic step and *)
(* the statements of requests in flight interleave.  A canary's id is its  *)
(* position in canary_releases.                                            *)
(***************************************************************************)
MaxCanaries == 2

MaxTransitions == 5

ContractSamples == {"contract-a", "contract-b"}

\* the requests carry no target_percentage override
TargetPercentageSamples == {None}

\* the row that INSERT INTO canary_releases (contract_id, to_deployment_id,
\* error_rate_threshold, created_by) leaves: the other columns take the
\* defaults of the table
NewCanaryRelease(contract_id) ==
    [contract_id |-> contract_id, status |-> "pending",
     current_stage |-> "stage_1", current_percentage |-> 0,
     target_percentage |-> 100]

\* the default stage progression; every stage other than stage_1..stage_4
\* takes the last arm
advance_stage(current, target_override) ==
    LET or(d) == IF target_override = None THEN d ELSE target_override[1]
    IN  CASE current.current_stage = "stage_1" -> <<"stage_2", or(10)>>
          [] current.current_stage = "stage_2" -> <<"stage_3", or(25)>>
          [] current.current_stage = "stage_3" -> <<"stage_4", or(50)>>
          [] current.current_stage = "stage_4" -> <<"complete", or(100)>>
          [] OTHER -> <<"stage_2", or(10)>>

\* SELECT id FROM canary_releases WHERE contract_id = $1 AND status IN
\* ('pending', 'active')
ExistingCanary(releases, contract_id) ==
    \E id \in DOMAIN releases :
        /\ releases[id].contract_id = contract_id
        /\ releases[id].status \in {"pending", "active"}

InFlight(at) == Cardinality({i \in Invocations : pc[i] \in at})

CanaryInit ==
    /\ canary_releases = <<>>
    /\ canary_stage_history = <<>>
    /\ pc = [i \in Invocations |-> "idle"]
    /\ req = [i \in Invocations |-> None]
    /\ result = None
    /\ elapsed = None
    /\ validation_result = None
    /\ abi_result = None
    /\ gas_result = None
    /\ performance_result = None
    /\ profile = None
    /\ NoCaches
    /\ ab_tests = None
    /\ history = None

canary_frame == <<result, elapsed, validation_result, abi_result, gas_result,
                  performance_result, profile, caches, ab_tests, history>>

\* create_canary up to its conflict check: CanaryAlreadyActive is returned
\* when a pending or active canary exists
CreateCanaryCheck(i) ==
    /\ pc[i] = "idle"
    /\ Len(canary_releases) + InFlight({"create:insert"}) < MaxCanaries
    /\ \E contract_id \in ContractSamples :
          IF ExistingCanary(canary_releases, contract_id)
          THEN UNCHANGED <<pc, req>>
          ELSE /\ req' = [req EXCEPT ![i] =
                      Some([contract_id |-> contract_id])]
               /\ pc' = [pc EXCEPT ![i] = "create:insert"]
    /\ UNCHANGED <<canary_releases, canary_stage_history, canary_frame>>

\* create_canary's INSERT, and the return
CreateCanaryInsert(i) ==
    /\ pc[i] = "create:insert"
    /\ canary_releases' =
           Append(canary_releases, NewCanaryRelease(req[i][1].contract_id))
    /\ req' = [req EXCEPT ![i] = None]
    /\ pc' = [pc EXCEPT ![i] = "idle"]
    /\ UNCHANGED <<canary_stage_history, canary_frame>>

\* advance_canary up to the computation of the next stage: CanaryNotFound
\* is returned when no row has the id
AdvanceCanaryFetch(i) ==
    /\ pc[i] = "idle"
    /\ Len(canary_stage_history)
           + InFlight({"advance:update", "advance:history"}) < MaxTransitions
    /\ \E canary_id \in 1..MaxCanaries,
          target_percentage \in TargetPercentageSamples :
          IF canary_id \notin DOMAIN canary_releases
          THEN UNCHANGED <<pc, req>>
          ELSE /\ req' = [req EXCEPT ![i] =
                      Some([canary_id |-> canary_id,
                            target_percentage |-> target_percentage,
                            current |-> canary_releases[canary_id],
                            next |-> advance_stage(canary_releases[canary_id],
                                                   target_percentage)])]
               /\ pc' = [pc EXCEPT ![i] = "advance:update"]
    /\ UNCHANGED <<canary_releases, canary_stage_history, canary_frame>>

\* advance_canary's UPDATE ... WHERE id = $1
AdvanceCanaryUpdate(i) ==
    /\ pc[i] = "advance:update"
    /\ canary_releases' =
           [canary_releases EXCEPT ![req[i][1].canary_id] =
               [@ EXCEPT !.status = "active",
                         !.current_stage = req[i][1].next[1],
                         !.current_percentage = req[i][1].next[2]]]
    /\ pc' = [pc EXCEPT ![i] = "advance:history"]
    /\ UNCHANGED <<req, canary_stage_history, canary_frame>>

\* advance_canary's INSERT INTO canary_stage_history, and the return
AdvanceCanaryRecord(i) ==
    /\ pc[i] = "advance:history"
    /\ canary_stage_history' =
           Append(canary_stage_history,
                  [canary_id |-> req[i][1].canary_id,
                   from_stage |-> req[i][1].current.current_stage,
                   to_stage |-> req[i][1].next[1],
                   from_percentage |-> req[i][1].current.current_percentage,
                   to_percentage |-> req[i][1].next[2]])
    /\ req' = [req EXCEPT ![i] = None]
    /\ pc' = [pc EXCEPT ![i] = "idle"]
    /\ UNCHANGED <<canary_releases, canary_frame>>

\* UPDATE ... SET status = 'rolled_back' WHERE id = $1 AND status IN
\* ('pending', 'active', 'paused'); CanaryNotFound when no row matches
RollbackCanary(i) ==
    /\ pc[i] = "idle"
    /\ \E canary_id \in 1..MaxCanaries :
          IF /\ canary_id \in DOMAIN canary_releases
             /\ canary_releases[canary_id].status
                    \in {"pending", "active", "paused"}
          THEN canary_releases' =
                   [canary_releases EXCEPT ![canary_id].status = "rolled_back"]
          ELSE UNCHANGED canary_releases
    /\ UNCHANGED <<pc, req, canary_stage_history, canary_frame>>

\* UPDATE ... SET status = 'completed', current_percentage =
\* target_percentage WHERE id = $1 AND status = 'active'; CanaryNotFound
\* when no row matches
CompleteCanary(i) ==
    /\ pc[i] = "idle"
    /\ \E canary_id \in 1..MaxCanaries :
          IF /\ canary_id \in DOMAIN canary_releases
             /\ canary_releases[canary_id].status = "active"
          THEN canary_releases' =
                   [canary_releases EXCEPT
                       ![canary_id] =
                           [@ EXCEPT !.status = "completed",
                                     !.current_percentage =
                                         canary_releases[canary_id]
                                             .target_percentage]]
          ELSE UNCHANGED canary_releases
    /\ UNCHANGED <<pc, req, canary_stage_history, canary_frame>>

CanaryNext ==
    \E i \in Invocations :
        \/ CreateCanaryCheck(i)
        \/ CreateCanaryInsert(i)
        \/ AdvanceCanaryFetch(i)
        \/ AdvanceCanaryUpdate(i)
        \/ AdvanceCanaryRecord(i)
        \/ RollbackCanary(i)
        \/ CompleteCanary(i)

CanarySpec == CanaryInit /\ [][CanaryNext]_vars

(***************************************************************************)
(* C27: at most one canary release per contract is pending or active, in   *)
(* every state reachable by any interleaving of create, advance, rollback  *)
(* and complete requests, and create_canary inserts nothing for a contract *)
(* that already has one: no create request is about to insert while a      *)
(* pending or active canary of its contract exists.                        *)
(***************************************************************************)
LiveCanaries(contract_id) ==
    {id \in DOMAIN canary_releases :
        /\ canary_releases[id].contract_id = contract_id
        /\ canary_releases[id].status \in {"pending", "active"}}

C27_SingleLiveCanary ==
    /\ \A contract_id \in ContractSamples :
          Cardinality(LiveCanaries(contract_id)) <= 1
    /\ \A i \in Invocations :
          pc[i] = "create:insert" =>
              ~ExistingCanary(canary_releases, req[i][1].contract_id)

(***************************************************************************)
(* C28: an advance_canary request that finds its canary completed,         *)
(* rolled_back or paused leaves canary_releases and canary_stage_history   *)
(* as they are, and no step makes a completed or rolled-back canary active *)
(* again.                                                                  *)
(***************************************************************************)
C28_AdvanceOnlyLive ==
    [][/\ \A i \in Invocations :
             (/\ pc[i] \in {"advance:update", "advance:history"}
              /\ pc'[i] # pc[i]
              /\ req[i][1].current.status
                     \in {"completed", "rolled_back", "paused"})
                 => /\ canary_releases' = canary_releases
                    /\ canary_stage_history' = canary_stage_history
       /\ \A id \in DOMAIN canary_releases :
             canary_releases[id].status \in {"completed", "rolled_back"}
                 => canary_releases'[id].status # "active"]_vars

(***************************************************************************)
(* C30: an advance_canary request without a target_percentage override     *)
(* that finds a pending or active canary at stage_1, stage_2, stage_3 or   *)
(* stage_4 moves it to the next stage at 10, 25, 50 or 100 percent, one    *)
(* that finds it at complete leaves it at complete and 100 percent, and    *)
(* neither the stage nor the percentage it found decreases.                *)
(***************************************************************************)
StageRank(stage) ==
    CASE stage = "stage_1" -> 1
      [] stage = "stage_2" -> 2
      [] stage = "stage_3" -> 3
      [] stage = "stage_4" -> 4
      [] stage = "complete" -> 5

NextStage(stage) ==
    CASE stage = "stage_1" -> <<"stage_2", 10>>
      [] stage = "stage_2" -> <<"stage_3", 25>>
      [] stage = "stage_3" -> <<"stage_4", 50>>
      [] stage = "stage_4" -> <<"complete", 100>>
      [] stage = "complete" -> <<"complete", 100>>

C30_StageProgression ==
    [][\A i \in Invocations :
          (/\ pc[i] = "advance:update"
           /\ pc'[i] = "advance:history"
           /\ req[i][1].target_percentage = None
           /\ req[i][1].current.status \in {"pending", "active"})
              => LET current == req[i][1].current
                     updated == canary_releases'[req[i][1].canary_id]
                 IN  /\ <<updated.current_stage, updated.current_percentage>>
                            = NextStage(current.current_stage)
                     /\ StageRank(updated.current_stage)
                            >= StageRank(current.current_stage)
                     /\ updated.current_percentage
                            >= current.current_percentage]_vars

(***************************************************************************)
(* A/B tests.  The handlers share the ab_tests table; every SQL statement  *)
(* is one atomic step and the statements of requests in flight interleave. *)
(* A test's id is its position in ab_tests.                                *)
(***************************************************************************)
MaxAbTests == 3

\* the row that INSERT INTO ab_tests (contract_id, name, ...) leaves: status
\* takes the default of the table
NewAbTest(contract_id) == [contract_id |-> contract_id, status |-> "draft"]

\* SELECT id FROM ab_tests WHERE contract_id = $1 AND status = 'running'
ExistingRunning(tests, contract_id) ==
    \E id \in DOMAIN tests :
        /\ tests[id].contract_id = contract_id
        /\ tests[id].status = "running"

\* UPDATE ab_tests SET status = to WHERE id = $1 AND status IN from; the
\* table is left as it is, and AbTestNotFound returned, when no row matches
UpdateStatus(tests, test_id, from, to) ==
    IF test_id \in DOMAIN tests /\ tests[test_id].status \in from
    THEN [tests EXCEPT ![test_id].status = to]
    ELSE tests

AbTestInit ==
    /\ ab_tests = <<>>
    /\ pc = [i \in Invocations |-> "idle"]
    /\ req = [i \in Invocations |-> None]
    /\ result = None
    /\ elapsed = None
    /\ validation_result = None
    /\ abi_result = None
    /\ gas_result = None
    /\ performance_result = None
    /\ profile = None
    /\ NoCaches
    /\ canary_releases = None
    /\ canary_stage_history = None
    /\ history = None

ab_test_frame == <<result, elapsed, validation_result, abi_result, gas_result,
                   performance_result, profile, caches, canary_releases,
                   canary_stage_history, history>>

\* create_ab_test up to its conflict check: AbTestAlreadyRunning is
\* returned when a running test exists
CreateAbTestCheck(i) ==
    /\ pc[i] = "idle"
    /\ Len(ab_tests) + InFlight({"create:insert"}) < MaxAbTests
    /\ \E contract_id \in ContractSamples :
          IF ExistingRunning(ab_tests, contract_id)
          THEN UNCHANGED <<pc, req>>
          ELSE /\ req' = [req EXCEPT ![i] =
                      Some([contract_id |-> contract_id])]
               /\ pc' = [pc EXCEPT ![i] = "create:insert"]
    /\ UNCHANGED <<ab_tests, ab_test_frame>>

\* create_ab_test's INSERT INTO ab_tests; the variant records that follow
\* go to another table
CreateAbTestInsert(i) ==
    /\ pc[i] = "create:insert"
    /\ ab_tests' = Append(ab_tests, NewAbTest(req[i][1].contract_id))
    /\ req' = [req EXCEPT ![i] = None]
    /\ pc' = [pc EXCEPT ![i] = "idle"]
    /\ UNCHANGED ab_test_frame

StartAbTest(i) ==
    /\ pc[i] = "idle"
    /\ \E test_id \in 1..MaxAbTests :
          ab_tests' = UpdateStatus(ab_tests, test_id, {"draft"}, "running")
    /\ UNCHANGED <<pc, req, ab_test_frame>>

StopAbTest(i) ==
    /\ pc[i] = "idle"
    /\ \E test_id \in 1..MaxAbTests :
          ab_tests' = UpdateStatus(ab_tests, test_id, {"running"}, "completed")
    /\ UNCHANGED <<pc, req, ab_test_frame>>

CancelAbTest(i) ==
    /\ pc[i] = "idle"
    /\ \E test_id \in 1..MaxAbTests :
          ab_tests' = UpdateStatus(ab_tests, test_id,
                                   {"draft", "running", "paused"}, "cancelled")
    /\ UNCHANGED <<pc, req, ab_test_frame>>

AbTestNext ==
    \E i \in Invocations :
        \/ CreateAbTestCheck(i)
        \/ CreateAbTestInsert(i)
        \/ StartAbTest(i)
        \/ StopAbTest(i)
        \/ CancelAbTest(i)

AbTestSpec == AbTestInit /\ [][AbTestNext]_vars

(***************************************************************************)
(* C29: at most one A/B test per contract is running after every step of   *)
(* any interleaving of create, start, stop and cancel requests, and a      *)
(* test's status changes only from draft to running, from running to       *)
(* completed and from draft, running or paused to cancelled, so that a     *)
(* completed or cancelled test keeps its status.                           *)
(***************************************************************************)
RunningTests(tests, contract_id) ==
    {id \in DOMAIN tests :
        /\ tests[id].contract_id = contract_id
        /\ tests[id].status = "running"}

StatusChanges ==
    {<<"draft", "running">>, <<"running", "completed">>,
     <<"draft", "cancelled">>, <<"running", "cancelled">>,
     <<"paused", "cancelled">>}

C29_SingleRunningTest ==
    [][/\ \A contract_id \in ContractSamples :
             Cardinality(RunningTests(ab_tests', contract_id)) <= 1
       /\ \A id \in DOMAIN ab_tests :
             \/ ab_tests'[id].status = ab_tests[id].status
             \/ <<ab_tests[id].status, ab_tests'[id].status>>
                    \in StatusChanges]_vars

==============================================================================
